---------------------------- MODULE Spec2Model ----------------------------
(***************************************************************************)
(* Commish Command: a fantasy-football league dashboard.                   *)
(*                                                                         *)
(* The frontend pages (src/frontend/app/...) fetch JSON from the backend   *)
(* through the API client (src/unnamed/part_011) and render it.  The       *)
(* backend's aggregation layer (backend/analytics in the README's project  *)
(* structure) is not among the source files; its operators are written     *)
(* here from the specification's sections 4.1 to 4.5 and are marked so in  *)
(* MODEL_MAP.json.  Scores and percentages are integers (hundredths where  *)
(* a product of percentages is taken).                                     *)
(***************************************************************************)
EXTENDS Integers, Sequences, FiniteSets, TLC

\* ------------------------------------------------------------------ bounds
NumMembers == 4
NumWeeks == 2
NumPicks == 12
MaxClicks == 2
MaxTyped == 3
MaxSbClicks == 3
MaxSubmits == 3
MaxTicks == 8
MaxFilterChanges == 2

\* --------------------------------------------------------------- constants
\* Power-score weights in percent (records page tooltip).
W_WIN_PCT_Heavy == 35 + 10
W_WIN_PCT == 35
W_CHAMPIONSHIPS == 25
W_PLAYOFF_RATE == 20
W_POINTS_PER_GAME == 10
W_SEASONS_PLAYED == 10

\* A JavaScript null / absent field.
Null == [null |-> TRUE]
\* A year that is null (useState<number | null>(null), an absent URL
\* parameter): falsy like 0.
NoYear == 0
\* getDraftStealsAndBusts(year, limit = 10)
DefaultStealsLimit == 10
DebounceMs == 300
\* "12 Teams, Every Year": the size of the league in a full season, and the
\* weeks of its regular season.
LeagueTeams == 12
RegularSeasonWeeks == 14

VARIABLES
  \* backend data, immutable historical fact once ingested
  apiDown,        \* the endpoints whose requests fail
  careers,        \* member id -> career aggregates (power-ranking inputs)
  matchups,       \* sequence of matchups of all seasons
  draftPicks,     \* sequence of draft picks of all seasons
  \* records page (src/frontend/app/records/page.tsx)
  recLoading, records, h2hMatrix, luckAnalysis, powerRankings, recActiveTab,
  recAiNarrative, recAiLoading, recAiAvailable, recHasFetched, recAiPc,
  \* standings page (src/frontend/app/standings/page.tsx)
  stLoading, stSeasons, stSelectedYear, stStandings, stSeasonRecords,
  stAiNarrative, stAiLoading, stAiAvailable, stLastFetchedYear,
  stUrlYear,       \* the URL's year parameter, NoYear when absent
  stSeasonsReqs,   \* loadSeasons calls awaiting getSeasons
  stDataTasks,     \* loadSeasonData calls awaiting a response
  stAiTasks,       \* fetchAINarrative calls awaiting a response
  stAiLast,        \* how the last finished fetchAINarrative call ended
  stClicks,        \* season buttons clicked so far
  \* drafts page (src/frontend/app/drafts/page.tsx)
  drLoading, drSeasons, drSelectedYear, drActiveTab, drDraftBoard,
  drReportCards, drStealsAndBusts, drTransactions, drTxTypeFilter,
  drTabLoading, drAiNarrative, drAiLoading, drAiAvailable, drHasFetchedAI,
  drSeasonsPending,  \* loadSeasons is awaiting getDraftSeasons
  drTabTasks,        \* loadTabData calls awaiting a response
  drAiTasks,         \* fetchAINarrative calls awaiting a response
  drClicks,          \* tabs and seasons selected so far
  drFilterChanges,   \* changes of the transaction-type filter so far
  drSwitchedCached,  \* some tab switch found its data loaded and sent nothing
  \* Ask the Commish widget (src/unnamed/part_006)
  askAiAvailable, askExampleQuestions,
  askInitPc,         \* where the init effect is: status, examples, done, failed
  askQuestion, askMessages, askIsLoading,
  askTasks,          \* handleSubmit calls awaiting askCommish
  askSubmits,        \* submits of the form so far
  \* AI sidebar (src/frontend/components/AISidebar.tsx)
  sbContextKey,      \* the key of the pageType and context props
  sbNarrative, sbIsLoading, sbError, sbIsAvailable, sbHasFetched,
  sbLastContextKey,
  sbTasks,           \* fetchSummary calls awaiting a response
  sbLast,            \* how the last finished fetchSummary call ended
  sbModelName,
  sbSummaryReqs,     \* per context, the getAISummary requests issued so far
  sbOkKeys,          \* the contexts fetched successfully so far
  sbLastOk,          \* the context of the latest successful fetch, or ""
  sbForced,          \* fetchSummary(true) has been called
  sbSkipped,         \* fetchSummary has returned at its guard
  sbClicks,          \* changes of context and button clicks so far
  \* member profile page (src/frontend/app/members/[id]/page.tsx)
  mbMemberId,        \* Number(params.id)
  mbLoading, mbMember, mbH2H, mbRivalries, mbNotableEvents, mbAchievements,
  mbDraftTendencies, mbTxActivity, mbFetchedData,
  mbAiInsights, mbAiLoading, mbAiAvailable,
  mbAiPc,            \* where fetchAIInsights is: idle, status, batch, done
  \* player search page (src/frontend/app/players/page.tsx)
  plQuery, plResults, plLoading, plSearched,
  plTimer,           \* the query and due time of the pending debounce
                     \* timer, or Null
  plTasks,           \* doSearch calls awaiting searchPlayers
  plTyped,           \* changes of the query so far
  plNow,             \* the time in ms since the page mounted
  plChangedAt,       \* when the query last changed
  plCancelled        \* a change of the query has cleared a pending timer

dbVars == <<apiDown, careers, matchups, draftPicks>>
recVars == <<recLoading, records, h2hMatrix, luckAnalysis, powerRankings,
             recActiveTab, recAiNarrative, recAiLoading, recAiAvailable,
             recHasFetched, recAiPc>>
stVars == <<stLoading, stSeasons, stSelectedYear, stStandings, stSeasonRecords,
            stAiNarrative, stAiLoading, stAiAvailable, stLastFetchedYear,
            stUrlYear, stSeasonsReqs, stDataTasks, stAiTasks, stAiLast,
            stClicks>>
drVars == <<drLoading, drSeasons, drSelectedYear, drActiveTab, drDraftBoard,
            drReportCards, drStealsAndBusts, drTransactions, drTxTypeFilter,
            drTabLoading, drAiNarrative, drAiLoading, drAiAvailable,
            drHasFetchedAI, drSeasonsPending, drTabTasks, drAiTasks, drClicks,
            drFilterChanges, drSwitchedCached>>
drHistory == <<drFilterChanges, drSwitchedCached>>
askChat == <<askQuestion, askMessages, askIsLoading, askTasks, askSubmits>>
askVars == <<askAiAvailable, askExampleQuestions, askInitPc, askChat>>
sbVars == <<sbContextKey, sbNarrative, sbIsLoading, sbError, sbIsAvailable,
            sbHasFetched, sbLastContextKey, sbTasks, sbLast, sbModelName,
            sbSummaryReqs, sbOkKeys, sbLastOk, sbForced, sbSkipped, sbClicks>>
mbVars == <<mbMemberId, mbLoading, mbMember, mbH2H, mbRivalries,
            mbNotableEvents, mbAchievements, mbDraftTendencies, mbTxActivity,
            mbFetchedData, mbAiInsights, mbAiLoading, mbAiAvailable, mbAiPc>>
plVars == <<plQuery, plResults, plLoading, plSearched, plTimer, plTasks,
            plTyped, plNow, plChangedAt, plCancelled>>
vars == <<dbVars, recVars, stVars, drVars, askVars, sbVars, mbVars, plVars>>
\* Everything but one component's state.
exceptRec == <<dbVars, stVars, drVars, askVars, sbVars, mbVars, plVars>>
exceptSt == <<dbVars, recVars, drVars, askVars, sbVars, mbVars, plVars>>
exceptDr == <<dbVars, recVars, stVars, askVars, sbVars, mbVars, plVars>>
exceptAsk == <<dbVars, recVars, stVars, drVars, sbVars, mbVars, plVars>>
exceptSb == <<dbVars, recVars, stVars, drVars, askVars, mbVars, plVars>>
exceptMb == <<dbVars, recVars, stVars, drVars, askVars, sbVars, plVars>>
exceptPl == <<dbVars, recVars, stVars, drVars, askVars, sbVars, mbVars>>

\* ------------------------------------------------------------------ helpers
Has(r, f) == f \in DOMAIN r
Truthy(x) == x # Null
Members == 1..NumMembers

\* Member names; ids are not in alphabetical order of the names.  The names
\* after the first five belong to the further managers of a full league.
MemberNames ==
  <<"Carl Hill", "Alice Wu", "Bob Stone", "Bob Hill", "Eve Park",
    "Finn Cole", "Gus Reed", "Hal Moss", "Ian Pike", "Jon Vale", "Kim Dunn",
    "Lee Nash", "Max Orr">>
NameOf(m) == MemberNames[m]

\* Alphabetical position of a member name.
AlphaOrder == <<"Alice Wu", "Bob Hill", "Bob Stone", "Carl Hill", "Eve Park">>
AlphaIndex(name) == CHOOSE i \in 1..Len(AlphaOrder) : AlphaOrder[i] = name

\* name.split(' ')[0]
FirstName(name) ==
  CASE name = "Carl Hill" -> "Carl"
    [] name = "Alice Wu" -> "Alice"
    [] name \in {"Bob Stone", "Bob Hill"} -> "Bob"
    [] name = "Eve Park" -> "Eve"

SeqSum(s) ==
  LET RECURSIVE Go(_)
      Go(i) == IF i = 0 THEN 0 ELSE s[i] + Go(i - 1)
  IN Go(Len(s))

\* A stable sort of s under the strict weak order Before, by insertion from
\* the end: an element goes in front of the first one that is not before it.
StableSort(s, Before(_, _)) ==
  LET RECURSIVE Ins(_, _)
      Ins(x, t) == IF t = <<>> THEN <<x>>
                   ELSE IF ~Before(Head(t), x) THEN <<x>> \o t
                   ELSE <<Head(t)>> \o Ins(x, Tail(t))
      RECURSIVE Sort(_)
      Sort(k) == IF k > Len(s) THEN <<>> ELSE Ins(s[k], Sort(k + 1))
  IN Sort(1)

\* --------------------------------------------- backend: power rankings (4.2)
\* power_score in hundredths: the weighted sum of the five 0..100 terms.
PowerScoreTerms(w, c, p, n, s) ==
  W_WIN_PCT * w + W_CHAMPIONSHIPS * c + W_PLAYOFF_RATE * p
    + W_POINTS_PER_GAME * n + W_SEASONS_PLAYED * s

PowerScore(career) ==
  PowerScoreTerms(career.win_percentage, career.championship_rate,
                  career.playoff_percentage, career.norm_ppg,
                  career.norm_seasons)

PowerEntry(m) ==
  [member_id |-> m, member |-> NameOf(m),
   power_score |-> PowerScore(careers[m]),
   seasons |-> careers[m].seasons,
   championships |-> careers[m].championships,
   win_percentage |-> careers[m].win_percentage,
   playoff_percentage |-> careers[m].playoff_percentage]

\* The ranking order: power score descending, then win % descending, then
\* championships descending, then member name ascending.
PowerBefore(a, b) ==
  \/ a.power_score > b.power_score
  \/ /\ a.power_score = b.power_score
     /\ \/ a.win_percentage > b.win_percentage
        \/ /\ a.win_percentage = b.win_percentage
           /\ \/ a.championships > b.championships
              \/ /\ a.championships = b.championships
                 /\ AlphaIndex(a.member) < AlphaIndex(b.member)

PowerRankingsResponse ==
  LET sorted == StableSort([m \in Members |-> PowerEntry(m)], PowerBefore)
  IN [rankings |->
        [i \in 1..Len(sorted) |->
           [rank |-> i] @@ sorted[i]]]

\* ------------------------------------------------------ backend: raw data (3)
\* The scores a team can post in a week; equal scores make a tie.
ScoreValues == {90, 110}

\* The two weekly pairings, as sets of <<team1, team2>>; with an odd number
\* of members one member has a bye.
PairingA == {<<2 * k - 1, 2 * k>> : k \in 1..(NumMembers \div 2)}
PairingB == {<<2 * k, ((2 * k) % NumMembers) + 1>> : k \in 1..(NumMembers \div 2)}
\* A season's schedule either repeats one pairing every week (rematches) or
\* alternates between the two.
Schedules ==
  {[w \in 1..NumWeeks |-> PairingA],
   [w \in 1..NumWeeks |-> IF w % 2 = 1 THEN PairingA ELSE PairingB]}

SetToSeq(S) ==
  LET RECURSIVE Go(_)
      Go(T) == IF T = {} THEN <<>>
               ELSE LET x == CHOOSE y \in T : \A z \in T : y[1] <= z[1]
                    IN <<x>> \o Go(T \ {x})
  IN Go(S)

\* The matchups of one week of one season: a pairing and a score per team.
WeekMatchups(year, week, pairing, score) ==
  LET ps == SetToSeq(pairing)
  IN [i \in 1..Len(ps) |->
        [season |-> year, week |-> week,
         team1 |-> ps[i][1], team2 |-> ps[i][2],
         score1 |-> score[ps[i][1]], score2 |-> score[ps[i][2]]]]

\* Every history of one season under a schedule: a score per team and week.
RECURSIVE ScheduleHistories(_, _, _)
ScheduleHistories(year, schedule, weeks) ==
  IF weeks = 0 THEN {<<>>}
  ELSE {h \o WeekMatchups(year, weeks, schedule[weeks], sc) :
          h \in ScheduleHistories(year, schedule, weeks - 1),
          sc \in [Members -> ScoreValues]}

SeasonHistories(year) ==
  UNION {ScheduleHistories(year, sch, NumWeeks) : sch \in Schedules}

SeasonMatchups(year) == SelectSeq(matchups, LAMBDA g : g.season = year)

PlayedIn(g, m) == g.team1 = m \/ g.team2 = m
ScoreOf(g, m) == IF g.team1 = m THEN g.score1 ELSE g.score2
OpponentOf(g, m) == IF g.team1 = m THEN g.team2 ELSE g.team1
OppScoreOf(g, m) == IF g.team1 = m THEN g.score2 ELSE g.score1
IsWin(g, m) == PlayedIn(g, m) /\ ScoreOf(g, m) > OppScoreOf(g, m)
IsLoss(g, m) == PlayedIn(g, m) /\ ScoreOf(g, m) < OppScoreOf(g, m)
IsTie(g, m) == PlayedIn(g, m) /\ ScoreOf(g, m) = OppScoreOf(g, m)

CountIn(gs, P(_)) == Cardinality({i \in 1..Len(gs) : P(gs[i])})
SumIn(gs, F(_)) == SeqSum([i \in 1..Len(gs) |-> F(gs[i])])

\* ------------------------------------------------- backend: standings (4.1)
TeamSeasonRow(year, m) ==
  LET gs == SeasonMatchups(year)
      w == CountIn(gs, LAMBDA g : IsWin(g, m))
      l == CountIn(gs, LAMBDA g : IsLoss(g, m))
      t == CountIn(gs, LAMBDA g : IsTie(g, m))
  IN [member_id |-> m, manager |-> NameOf(m),
      wins |-> w, losses |-> l, ties |-> t,
      record |-> IF t = 0 THEN <<w, l>> ELSE <<w, l, t>>,
      points_for |->
        SumIn(gs, LAMBDA g : IF PlayedIn(g, m) THEN ScoreOf(g, m) ELSE 0),
      points_against |->
        SumIn(gs, LAMBDA g : IF PlayedIn(g, m) THEN OppScoreOf(g, m) ELSE 0)]

\* Wins descending, then points-for descending.
StandingsBefore(a, b) ==
  \/ a.wins > b.wins
  \/ (a.wins = b.wins /\ a.points_for > b.points_for)

\* The teams of a season: the members, and every further team that has a
\* matchup in the season.
SeasonTeamCount(year) ==
  LET gs == SeasonMatchups(year)
      ids == {NumMembers} \cup {gs[i].team1 : i \in 1..Len(gs)}
               \cup {gs[i].team2 : i \in 1..Len(gs)}
  IN CHOOSE n \in ids : \A k \in ids : k <= n

StandingsResponse(year) ==
  LET sorted == StableSort([m \in 1..SeasonTeamCount(year) |->
                              TeamSeasonRow(year, m)],
                           StandingsBefore)
  IN [season |-> year,
      standings |-> [i \in 1..Len(sorted) |-> [rank |-> i] @@ sorted[i]]]

\* A full season (spec 8): LeagueTeams teams play RegularSeasonWeeks weeks of
\* a round robin.  In week w team LeagueTeams meets the team at place w of
\* the ring of the other teams, and the teams j places before and after that
\* place meet each other.
RoundRobinWeek(w) ==
  LET n == LeagueTeams - 1
      r == (w - 1) % n
  IN {<<r + 1, LeagueTeams>>} \cup
     {<<((r + j) % n) + 1, ((r + n - j) % n) + 1>> : j \in 1..(n \div 2)}

\* The scores of a full season: the star team posts 200 except in the weeks
\* it loses, a rival posts 150 in its first `high` weeks and 60 after, and
\* every other team posts a score between 100 and 116 that changes with the
\* week.
FullSeasonScore(star, starLoses, rival, high, t, w) ==
  IF t = star THEN (IF w \in starLoses THEN 50 ELSE 200)
  ELSE IF t = rival THEN (IF w <= high THEN 150 ELSE 60)
  ELSE 100 + ((t * w + 9 * w + t) % 17)

RECURSIVE FullSeason(_, _, _, _, _, _)
FullSeason(year, star, starLoses, rival, high, weeks) ==
  IF weeks = 0 THEN <<>>
  ELSE FullSeason(year, star, starLoses, rival, high, weeks - 1) \o
       WeekMatchups(year, weeks, RoundRobinWeek(weeks),
                    [t \in 1..LeagueTeams |->
                       FullSeasonScore(star, starLoses, rival, high, t, weeks)])

\* The seasons with data, most recent first.
SeasonsResponse ==
  LET years == {matchups[i].season : i \in 1..Len(matchups)}
      RECURSIVE Desc(_)
      Desc(Y) == IF Y = {} THEN <<>>
                 ELSE LET y == CHOOSE x \in Y : \A z \in Y : z <= x
                      IN <<[year |-> y]>> \o Desc(Y \ {y})
  IN Desc(years)

\* ---------------------------------------------- backend: luck analysis (4.3)
\* The number of other teams whose score that week m's score would have beaten.
WeekBeaten(g, m) ==
  Cardinality({o \in Members \ {m} :
     \E i \in 1..Len(matchups) :
        /\ matchups[i].season = g.season /\ matchups[i].week = g.week
        /\ PlayedIn(matchups[i], o)
        /\ ScoreOf(matchups[i], o) < ScoreOf(g, m)})

ExpectedWins(m) ==
  SumIn(matchups, LAMBDA g : IF PlayedIn(g, m) THEN WeekBeaten(g, m) ELSE 0)

ActualWins(m) == CountIn(matchups, LAMBDA g : IsWin(g, m))

LuckEntry(m) ==
  [member_id |-> m, member |-> NameOf(m),
   actual_wins |-> ActualWins(m),
   expected_wins |-> ExpectedWins(m),
   luck_factor |-> ActualWins(m) - ExpectedWins(m)]

LuckBefore(a, b) == a.luck_factor > b.luck_factor

LuckAnalysisResponse ==
  IF Len(matchups) = 0 THEN [message |-> "No matchup data"]
  ELSE [analysis |-> StableSort([m \in Members |-> LuckEntry(m)], LuckBefore)]

\* ------------------------------------------ backend: head-to-head matrix (4.4)
H2HGames(a, b) ==
  SelectSeq(matchups, LAMBDA g : PlayedIn(g, a) /\ PlayedIn(g, b))

H2HRecord(a, b) ==
  LET gs == H2HGames(a, b)
      w == CountIn(gs, LAMBDA g : IsWin(g, a))
  IN [opponent_id |-> b, opponent_name |-> NameOf(b),
      wins |-> w,
      losses |-> CountIn(gs, LAMBDA g : IsLoss(g, a)),
      ties |-> CountIn(gs, LAMBDA g : IsTie(g, a)),
      win_pct |-> (100 * w) \div Len(gs)]

\* A member's opponents: every other member met at least once.
H2HRow(a) ==
  LET opp == SelectSeq([m \in Members |-> m],
                       LAMBDA b : b # a /\ Len(H2HGames(a, b)) > 0)
  IN [member_id |-> a, member_name |-> NameOf(a),
      opponents |-> [i \in 1..Len(opp) |-> H2HRecord(a, opp[i])]]

H2HMatrixResponse ==
  IF Len(matchups) = 0 THEN [message |-> "No matchup data"]
  ELSE [members |-> [m \in Members |-> NameOf(m)],
        matrix |-> [m \in Members |-> H2HRow(m)]]

\* --------------------------------------------- backend: all-time records (4.2)
\* The first matchup side holding the highest score, by a linear scan.
HighestScore(games) ==
  LET sides == [k \in 1..(2 * Len(games)) |->
                  LET g == games[(k + 1) \div 2]
                      m == IF k % 2 = 1 THEN g.team1 ELSE g.team2
                  IN [score |-> ScoreOf(g, m), manager |-> NameOf(m),
                      season |-> g.season, week |-> g.week]]
      best == CHOOSE k \in 1..Len(sides) :
                /\ \A j \in 1..Len(sides) : sides[j].score <= sides[k].score
                /\ \A j \in 1..(k - 1) : sides[j].score < sides[k].score
  IN sides[best]

\* The first matchup side holding the lowest score.
LowestScore(games) ==
  LET sides == [k \in 1..(2 * Len(games)) |->
                  LET g == games[(k + 1) \div 2]
                      m == IF k % 2 = 1 THEN g.team1 ELSE g.team2
                  IN [score |-> ScoreOf(g, m), manager |-> NameOf(m),
                      season |-> g.season, week |-> g.week]]
      best == CHOOSE k \in 1..Len(sides) :
                /\ \A j \in 1..Len(sides) : sides[j].score >= sides[k].score
                /\ \A j \in 1..(k - 1) : sides[j].score > sides[k].score
  IN sides[best]

\* A matchup as a result: the margin, the winner and the loser (team1 counts
\* as the winner of a tie).
GameResult(g) ==
  LET w == IF g.score1 >= g.score2 THEN g.team1 ELSE g.team2
      l == OpponentOf(g, w)
  IN [margin |-> ScoreOf(g, w) - ScoreOf(g, l),
      winner |-> NameOf(w), winner_score |-> ScoreOf(g, w),
      loser |-> NameOf(l), loser_score |-> ScoreOf(g, l),
      season |-> g.season, week |-> g.week]

\* The first matchup with the largest margin.
BiggestBlowout(games) ==
  LET rs == [k \in 1..Len(games) |-> GameResult(games[k])]
      best == CHOOSE k \in 1..Len(rs) :
                /\ \A j \in 1..Len(rs) : rs[j].margin <= rs[k].margin
                /\ \A j \in 1..(k - 1) : rs[j].margin < rs[k].margin
  IN rs[best]

\* The first matchup with the smallest margin.
ClosestGame(games) ==
  LET rs == [k \in 1..Len(games) |-> GameResult(games[k])]
      best == CHOOSE k \in 1..Len(rs) :
                /\ \A j \in 1..Len(rs) : rs[j].margin >= rs[k].margin
                /\ \A j \in 1..(k - 1) : rs[j].margin > rs[k].margin
  IN rs[best]

AllTimeRecordsResponse ==
  IF Len(matchups) = 0 THEN [message |-> "No matchup data"]
  ELSE [highest_score |-> HighestScore(matchups)]

\* The highlights of a season; a season without matchups has none.
SeasonRecordsResponse(year) ==
  LET gs == SeasonMatchups(year)
  IN IF Len(gs) = 0 THEN [season |-> year]
     ELSE [season |-> year,
           highest_score |-> HighestScore(gs),
           lowest_score |-> LowestScore(gs),
           biggest_blowout |-> BiggestBlowout(gs),
           closest_game |-> ClosestGame(gs)]

\* --------------------------------------------- backend: raw draft data (3)
\* A season's draft is described by how the season turned out against the
\* draft order: the performance order is the draft order rotated by `rot`,
\* `paired` makes neighbouring performances equal, and the picks in `missing`
\* have no season-points data.  Rotations by 1 and by NumPicks - 1 make
\* NumPicks - 1 busts and NumPicks - 1 steals.
DraftProfiles ==
  [rot : {0, 1, NumPicks \div 2, NumPicks - 1}, paired : BOOLEAN,
   missing : {{}, {1}, {NumPicks \div 2, NumPicks}}]

ProfilePoints(year, profile, k) ==
  LET base == NumPicks - ((k - 1 + profile.rot) % NumPicks)
  IN 10 * (IF profile.paired THEN (base + 1) \div 2 ELSE base) + (year % 3)

\* The manager of a pick: the order of the managers alternates by season.
PickManager(year, k) ==
  IF year % 2 = 0 THEN ((k - 1) % NumMembers) + 1
  ELSE NumMembers - ((k - 1) % NumMembers)

\* The DraftPick rows of a season.  A pick without season-points data has no
\* season_points field.
DraftOf(year, profile) ==
  [k \in 1..NumPicks |->
     LET core == [season |-> year,
                  round |-> ((k - 1) \div NumMembers) + 1,
                  pick_number |-> k,
                  player_name |-> <<"player", year, k>>,
                  member_id |-> PickManager(year, k),
                  manager |-> NameOf(PickManager(year, k))]
     IN IF k \in profile.missing THEN core
        ELSE core @@ [season_points |-> ProfilePoints(year, profile, k)]]

\* ------------------------------------ backend: draft report card (4.5)
SeasonPicks(year) == SelectSeq(draftPicks, LAMBDA p : p.season = year)
HasPoints(p) == "season_points" \in DOMAIN p

\* The place of a pick when all picks with data are ranked by season points
\* descending, equal points in draft order.
PerformanceRank(picks, p) ==
  1 + Cardinality({i \in 1..Len(picks) :
        /\ HasPoints(picks[i])
        /\ \/ picks[i].season_points > p.season_points
           \/ /\ picks[i].season_points = p.season_points
              /\ picks[i].pick_number < p.pick_number})

\* The fixed mapping from the rank differential to the letter.
GradeOfDifferential(d) ==
  IF d >= 4 THEN "A+"
  ELSE IF d >= 2 THEN "A"
  ELSE IF d >= 1 THEN "B"
  ELSE IF d >= -1 THEN "C"
  ELSE IF d >= -3 THEN "D"
  ELSE "F"

DraftGrade(draftRank, perfRank) == GradeOfDifferential(draftRank - perfRank)

\* The picks of a season as they are graded: a pick with season-points data
\* gets its rank differential and its grade, a pick without is left as it is.
Graded(year) ==
  LET picks == SeasonPicks(year)
  IN [i \in 1..Len(picks) |->
        IF HasPoints(picks[i])
          THEN LET perf == PerformanceRank(picks, picks[i])
               IN [pick |-> picks[i] @@
                              [grade |-> DraftGrade(picks[i].pick_number, perf)],
                   graded |-> TRUE,
                   diff |-> picks[i].pick_number - perf]
          ELSE [pick |-> picks[i], graded |-> FALSE, diff |-> 0]]

IsSteal(g) == g.graded /\ g.diff > 0
IsBust(g) == g.graded /\ g.diff < 0
PicksOf(gs) == [i \in 1..Len(gs) |-> gs[i].pick]

DraftSeasonsResponse ==
  LET years == {draftPicks[i].season : i \in 1..Len(draftPicks)}
      RECURSIVE Desc(_)
      Desc(Y) == IF Y = {} THEN <<>>
                 ELSE LET y == CHOOSE x \in Y : \A z \in Y : z <= x
                      IN <<[year |-> y, num_picks |-> Len(SeasonPicks(y))]>>
                           \o Desc(Y \ {y})
  IN [seasons |-> Desc(years)]

DraftBoardResponse(year) ==
  LET picks == PicksOf(Graded(year))
      rounds == {picks[i].round : i \in 1..Len(picks)}
  IN [season |-> year,
      total_picks |-> Len(picks),
      rounds |-> [r \in rounds |-> SelectSeq(picks, LAMBDA p : p.round = r)]]

ReportCard(gs, m) ==
  LET mine == SelectSeq(gs, LAMBDA g : g.pick.member_id = m)
      graded == SelectSeq(mine, LAMBDA g : g.graded)
      card == [team_id |-> m, member_id |-> m, manager |-> NameOf(m),
               total_picks |-> Len(mine),
               steals_count |-> CountIn(mine, IsSteal),
               busts_count |-> CountIn(mine, IsBust),
               picks |-> PicksOf(mine)]
  IN IF Len(graded) = 0 THEN card
     ELSE card @@
          [overall_grade |->
             GradeOfDifferential(
               SeqSum([i \in 1..Len(graded) |-> graded[i].diff])
                 \div Len(graded))]

DraftReportCardResponse(year) ==
  LET gs == Graded(year)
      owners == {gs[i].pick.member_id : i \in 1..Len(gs)}
      cards == [m \in Members |-> IF m \in owners THEN ReportCard(gs, m)
                                  ELSE Null]
  IN [season |-> year, report_cards |-> SelectSeq(cards, Truthy)]

Take(s, n) == SubSeq(s, 1, IF n < Len(s) THEN n ELSE Len(s))

\* Steals: the top `limit` picks by positive differential; busts: the top
\* `limit` picks by negative differential.
DraftStealsAndBustsResponse(year, limit) ==
  LET gs == Graded(year)
      steals == StableSort(SelectSeq(gs, IsSteal), LAMBDA a, b : a.diff > b.diff)
      busts == StableSort(SelectSeq(gs, IsBust), LAMBDA a, b : a.diff < b.diff)
  IN [season |-> year,
      steals |-> PicksOf(Take(steals, limit)),
      busts |-> PicksOf(Take(busts, limit))]

TransactionsResponse(year) ==
  [season |-> year, transactions |-> <<>>, type_breakdown |-> <<>>]

\* ------------------------------------------------------------ API client

\* The requests the API client builds.
getSeasons == [path |-> "/api/leagues/seasons"]
getStandings_PreviousYear(year) ==
  [path |-> "/api/leagues/standings", year |-> year - 1]
getStandings(year) == [path |-> "/api/leagues/standings", year |-> year]
getSeasonRecords(year) == [path |-> "/api/records/season", year |-> year]
getAllTimeRecords == [path |-> "/api/records/all-time"]
getH2HMatrix == [path |-> "/api/records/h2h-matrix"]
getLuckAnalysis == [path |-> "/api/records/luck-analysis"]
getPowerRankings == [path |-> "/api/records/power-rankings"]
getDraftSeasons == [path |-> "/api/drafts/seasons"]
getDraftBoard(year) == [path |-> "/api/drafts/board", year |-> year]
getDraftReportCard(year) == [path |-> "/api/drafts/report-card", year |-> year]
getDraftStealsAndBusts(year, limit) ==
  [path |-> "/api/drafts/steals-busts", year |-> year, limit |-> limit]
getTransactions(year, type) ==
  IF type # "" THEN [path |-> "/api/drafts/transactions", year |-> year,
                     tx_type |-> type]
  ELSE [path |-> "/api/drafts/transactions", year |-> year]
getMember(id) == [path |-> "/api/members/{id}", id |-> id]
getMemberH2H(id) == [path |-> "/api/members/{id}/head-to-head", id |-> id]
getMemberRivalries(id) == [path |-> "/api/members/{id}/rivalries", id |-> id]
getMemberNotableEvents(id) ==
  [path |-> "/api/members/{id}/notable-events", id |-> id]
getMemberAchievements(id) ==
  [path |-> "/api/members/{id}/achievements", id |-> id]
getDraftTendencies(id) == [path |-> "/api/drafts/tendencies/{id}", id |-> id]
getMemberTransactionActivity(id) ==
  [path |-> "/api/drafts/transactions/activity/{id}", id |-> id]

searchPlayers(query) == [path |-> "/api/players/search", q |-> query]

\* The players the league has rostered, and whether a name contains a query.
PlayerRoster ==
  <<[player_name |-> <<"a", "b">>], [player_name |-> <<"b", "a">>],
    [player_name |-> <<"a", " ", "b", "a">>]>>
Contains(name, q) ==
  \E i \in 0..(Len(name) - Len(q)) : SubSeq(name, i + 1, i + Len(q)) = q
SearchPlayersResponse(q) ==
  [players |-> SelectSeq(PlayerRoster, LAMBDA p : Contains(p.player_name, q))]

\* What the backend answers to a request.
Serve(req) ==
  CASE req.path = "/api/leagues/seasons" -> SeasonsResponse
    [] req.path = "/api/leagues/standings" -> StandingsResponse(req.year)
    [] req.path = "/api/records/season" -> SeasonRecordsResponse(req.year)
    [] req.path = "/api/records/all-time" -> AllTimeRecordsResponse
    [] req.path = "/api/records/h2h-matrix" -> H2HMatrixResponse
    [] req.path = "/api/records/luck-analysis" -> LuckAnalysisResponse
    [] req.path = "/api/records/power-rankings" -> PowerRankingsResponse
    [] req.path = "/api/drafts/seasons" -> DraftSeasonsResponse
    [] req.path = "/api/drafts/board" -> DraftBoardResponse(req.year)
    [] req.path = "/api/drafts/report-card" -> DraftReportCardResponse(req.year)
    [] req.path = "/api/drafts/steals-busts" ->
         DraftStealsAndBustsResponse(req.year, req.limit)
    [] req.path = "/api/drafts/transactions" -> TransactionsResponse(req.year)
    [] req.path = "/api/members/{id}" ->
         [id |-> req.id, name |-> NameOf(req.id),
          total_wins |-> ActualWins(req.id),
          total_losses |-> CountIn(matchups, LAMBDA g : IsLoss(g, req.id))]
    [] req.path = "/api/members/{id}/head-to-head" ->
         [head_to_head |-> H2HRow(req.id).opponents]
    [] req.path = "/api/members/{id}/rivalries" ->
         [rivalries |-> Take(H2HRow(req.id).opponents, 1)]
    [] req.path = "/api/members/{id}/notable-events" ->
         [championship_years |-> <<>>]
    [] req.path = "/api/members/{id}/achievements" ->
         [achievements |-> <<[id |-> "ironman", label |-> "Ironman"]>>]
    [] req.path = "/api/drafts/tendencies/{id}" ->
         [total_picks |->
            CountIn(draftPicks, LAMBDA d : d.member_id = req.id)]
    [] req.path = "/api/drafts/transactions/activity/{id}" ->
         [total_transactions |-> 1]
    [] req.path = "/api/players/search" -> SearchPlayersResponse(req.q)

\* fetchAPI throws when the request fails or the status is not ok.
Fails(req) == req.path \in apiDown

\* fetchAPI(...).catch(() => null)
FetchOrNull(req) == IF Fails(req) THEN Null ELSE Serve(req)

RecordsEndpoints ==
  {getAllTimeRecords.path, getH2HMatrix.path, getLuckAnalysis.path,
   getPowerRankings.path}
DraftsEndpoints ==
  {getDraftSeasons.path, "/api/drafts/board", "/api/drafts/report-card",
   "/api/drafts/steals-busts", "/api/drafts/transactions"}
StandingsEndpoints == {getSeasons.path, "/api/leagues/standings",
                       "/api/records/season"}
MemberEndpoints ==
  {getMember(0).path, getMemberH2H(0).path, getMemberRivalries(0).path,
   getMemberNotableEvents(0).path, getMemberAchievements(0).path,
   getDraftTendencies(0).path, getMemberTransactionActivity(0).path}

\* ------------------------------------------------------------ records page
RecordsTabs == {"records", "h2h", "luck", "power"}

\* loadData resumes after Promise.all: the four results are stored, the AI
\* narrative is requested once, and loading ends.
RecLoadData ==
  /\ recLoading
  /\ records' = FetchOrNull(getAllTimeRecords)
  /\ h2hMatrix' = FetchOrNull(getH2HMatrix)
  /\ luckAnalysis' = FetchOrNull(getLuckAnalysis)
  /\ powerRankings' = FetchOrNull(getPowerRankings)
  /\ IF ~recHasFetched
       THEN recAiPc' = "status" /\ recHasFetched' = TRUE
       ELSE UNCHANGED <<recAiPc, recHasFetched>>
  /\ recLoading' = FALSE
  /\ UNCHANGED <<recActiveTab, recAiNarrative, recAiLoading, recAiAvailable>>
  /\ UNCHANGED exceptRec

\* A tab button is clicked; the tabs are rendered once loading has ended.
RecSetActiveTab(tab) ==
  /\ ~recLoading
  /\ tab \in RecordsTabs
  /\ tab # recActiveTab
  /\ recActiveTab' = tab
  /\ UNCHANGED <<recLoading, records, h2hMatrix, luckAnalysis, powerRankings,
                 recAiNarrative, recAiLoading, recAiAvailable, recHasFetched,
                 recAiPc>>
  /\ UNCHANGED exceptRec

\* What the page renders under the tab bar: the spinner while loading, else
\* the active tab's card, its "not yet loaded" message, or nothing when no
\* block of the tab has a true condition.
RecordsTabView(loading, tab, recs, h2h, luck, power) ==
  IF loading THEN "spinner"
  ELSE CASE tab = "records" ->
              IF ~(Truthy(recs) /\ Has(recs, "highest_score")) THEN "message"
              ELSE "content"
         [] tab = "h2h" ->
              IF ~(Truthy(h2h) /\ Has(h2h, "matrix")) THEN "message"
              ELSE "content"
         [] tab = "luck" ->
              IF ~(Truthy(luck) /\ Has(luck, "analysis")) THEN "message"
              ELSE "content"
         [] tab = "power" ->
              IF Truthy(power) THEN "content" ELSE "nothing"

\* The Power Rankings table: one row per entry, in the order of the array.
PowerRow(entry, index) ==
  [rank |-> entry.rank,
   medal |-> entry.rank \in {1, 2, 3},
   highlighted |-> index < 3,
   member |-> entry.member,
   power_score |-> entry.power_score,
   seasons |-> entry.seasons,
   championships |-> IF entry.championships > 0 THEN entry.championships ELSE 0,
   win_percentage |-> entry.win_percentage,
   playoff_percentage |-> entry.playoff_percentage]

\* A table re-sorted on the client by the Win % column.
PowerTable_SortedByWinPct(data) ==
  IF Truthy(data) /\ Has(data, "rankings")
    THEN LET byWin == StableSort(data.rankings,
                        LAMBDA a, b : a.win_percentage > b.win_percentage)
         IN [i \in 1..Len(byWin) |-> PowerRow(byWin[i], i - 1)]
    ELSE <<>>

PowerTable(data) ==
  IF Truthy(data) /\ Has(data, "rankings")
    THEN [i \in 1..Len(data.rankings) |-> PowerRow(data.rankings[i], i - 1)]
    ELSE <<>>

\* The Luck Analysis table: the luck factor is shown with a sign and a colour.
\* The luck factor printed as a magnitude after the sign.
LuckRow_Magnitude(entry) ==
  [member |-> entry.member,
   actual_wins |-> entry.actual_wins,
   expected_wins |-> entry.expected_wins,
   luck_sign |-> IF entry.luck_factor > 0 THEN "+" ELSE "",
   luck_factor |-> IF entry.luck_factor < 0 THEN -entry.luck_factor
                   ELSE entry.luck_factor,
   luck_colour |-> IF entry.luck_factor > 0 THEN "green" ELSE "red"]

LuckRow(entry) ==
  [member |-> entry.member,
   actual_wins |-> entry.actual_wins,
   expected_wins |-> entry.expected_wins,
   luck_sign |-> IF entry.luck_factor > 0 THEN "+" ELSE "",
   luck_factor |-> entry.luck_factor,
   luck_colour |-> IF entry.luck_factor > 0 THEN "green" ELSE "red"]

LuckTable(data) ==
  IF Truthy(data) /\ Has(data, "analysis")
    THEN [i \in 1..Len(data.analysis) |-> LuckRow(data.analysis[i])]
    ELSE <<>>

\* A cell that looks the opponent up by the first name the header shows.
H2HCell_ByFirstName(row, name) ==
  IF name = row.member_name THEN [kind |-> "self"]
  ELSE LET found == {i \in 1..Len(row.opponents) :
                       FirstName(row.opponents[i].opponent_name) = FirstName(name)}
       IN IF found = {} THEN [kind |-> "none"]
          ELSE LET record == row.opponents[CHOOSE i \in found :
                                             \A j \in found : i <= j]
               IN [kind |-> "record", wins |-> record.wins,
                   losses |-> record.losses,
                   colour |-> IF record.win_pct > 55 THEN "green"
                              ELSE IF record.win_pct < 45 THEN "red" ELSE ""]

\* One cell of the H2H matrix: the row member's record against `name`.
H2HCell(row, name) ==
  IF name = row.member_name THEN [kind |-> "self"]
  ELSE LET found == {i \in 1..Len(row.opponents) :
                       row.opponents[i].opponent_name = name}
       IN IF found = {} THEN [kind |-> "none"]
          ELSE LET record == row.opponents[CHOOSE i \in found :
                                             \A j \in found : i <= j]
               IN [kind |-> "record", wins |-> record.wins,
                   losses |-> record.losses,
                   colour |-> IF record.win_pct > 55 THEN "green"
                              ELSE IF record.win_pct < 45 THEN "red" ELSE ""]

\* The H2H table: row member name -> column member name -> cell.
H2HTable(data) ==
  IF Truthy(data) /\ Has(data, "matrix")
    THEN [i \in 1..Len(data.matrix) |->
            [row_name |-> data.matrix[i].member_name,
             row_label |-> FirstName(data.matrix[i].member_name),
             cells |-> [j \in 1..Len(data.members) |->
                          [col_name |-> data.members[j],
                           col_label |-> FirstName(data.members[j])] @@
                          H2HCell(data.matrix[i], data.members[j])]]]
    ELSE <<>>

\* ---------------------------------------------------------- standings page
RemoveAt(s, i) == [k \in 1..(Len(s) - 1) |-> IF k < i THEN s[k] ELSE s[k + 1]]

\* The outcomes of a request to the AI service.
AiStatusOutcomes == {"available", "unavailable", "error"}
AiSummaryOutcomes == {"ok", "error"}

\* useEffect([selectedYear]): a changed, truthy selectedYear calls
\* loadSeasonData, which first awaits getStandings.
StartSeasonData(tasks, newYear, oldYear) ==
  IF newYear # oldYear /\ newYear # NoYear
    THEN Append(tasks, [year |-> newYear, pc |-> "standings"])
    ELSE tasks

\* useEffect([searchParams]): a changed URL calls loadSeasons, which keeps
\* the searchParams of its render.
StartLoadSeasons(reqs, newUrlYear, oldUrlYear) ==
  IF newUrlYear # oldUrlYear
    THEN Append(reqs, [yearParam |-> newUrlYear])
    ELSE reqs

\* loadSeasons that never looks at the year parameter of the URL.
StLoadSeasons_IgnoresUrl(i) ==
  /\ i \in 1..Len(stSeasonsReqs)
  /\ IF Fails(getSeasons)
       THEN UNCHANGED <<stSeasons, stSelectedYear, stDataTasks>>
       ELSE LET data == Serve(getSeasons)
                yearParam == stSeasonsReqs[i].yearParam
                newYear ==
                  IF Len(data) > 0 THEN data[1].year ELSE stSelectedYear
            IN /\ stSeasons' = data
               /\ stSelectedYear' = newYear
               /\ stDataTasks' =
                    StartSeasonData(stDataTasks, newYear, stSelectedYear)
  /\ stLoading' = FALSE
  /\ stSeasonsReqs' = RemoveAt(stSeasonsReqs, i)
  /\ UNCHANGED <<stStandings, stSeasonRecords, stAiNarrative, stAiLoading,
                 stAiAvailable, stLastFetchedYear, stUrlYear, stAiTasks,
                 stAiLast, stClicks>>
  /\ UNCHANGED exceptSt

\* loadSeasons resumes after getSeasons.
StLoadSeasons(i) ==
  /\ i \in 1..Len(stSeasonsReqs)
  /\ IF Fails(getSeasons)
       THEN UNCHANGED <<stSeasons, stSelectedYear, stDataTasks>>
       ELSE LET data == Serve(getSeasons)
                yearParam == stSeasonsReqs[i].yearParam
                newYear ==
                  IF yearParam # NoYear
                     /\ \E k \in 1..Len(data) : data[k].year = yearParam
                    THEN yearParam
                  ELSE IF Len(data) > 0 THEN data[1].year
                  ELSE stSelectedYear
            IN /\ stSeasons' = data
               /\ stSelectedYear' = newYear
               /\ stDataTasks' =
                    StartSeasonData(stDataTasks, newYear, stSelectedYear)
  /\ stLoading' = FALSE
  /\ stSeasonsReqs' = RemoveAt(stSeasonsReqs, i)
  /\ UNCHANGED <<stStandings, stSeasonRecords, stAiNarrative, stAiLoading,
                 stAiAvailable, stLastFetchedYear, stUrlYear, stAiTasks,
                 stAiLast, stClicks>>
  /\ UNCHANGED exceptSt

\* loadSeasonData resumes after getStandings: the standings are stored and
\* getSeasonRecords is awaited, or the failure is logged and the call ends.
StLoadStandings(i) ==
  /\ i \in 1..Len(stDataTasks)
  /\ stDataTasks[i].pc = "standings"
  /\ LET year == stDataTasks[i].year IN
     IF Fails(getStandings(year))
       THEN /\ stDataTasks' = RemoveAt(stDataTasks, i)
            /\ UNCHANGED stStandings
       ELSE /\ stStandings' = Serve(getStandings(year))
            /\ stDataTasks' = [stDataTasks EXCEPT ![i].pc = "records"]
  /\ UNCHANGED <<stLoading, stSeasons, stSelectedYear, stSeasonRecords,
                 stAiNarrative, stAiLoading, stAiAvailable, stLastFetchedYear,
                 stUrlYear, stSeasonsReqs, stAiTasks, stAiLast, stClicks>>
  /\ UNCHANGED exceptSt

\* loadSeasonData resumes after getSeasonRecords: the records or null are
\* stored and the AI narrative is requested when the year is a new one.
StLoadSeasonRecords(i) ==
  /\ i \in 1..Len(stDataTasks)
  /\ stDataTasks[i].pc = "records"
  /\ LET year == stDataTasks[i].year IN
     /\ stSeasonRecords' = FetchOrNull(getSeasonRecords(year))
     /\ IF year # stLastFetchedYear
          THEN /\ stAiTasks' = Append(stAiTasks, [year |-> year, pc |-> "status"])
               /\ stLastFetchedYear' = year
          ELSE UNCHANGED <<stAiTasks, stLastFetchedYear>>
  /\ stDataTasks' = RemoveAt(stDataTasks, i)
  /\ UNCHANGED <<stLoading, stSeasons, stSelectedYear, stStandings,
                 stAiNarrative, stAiLoading, stAiAvailable, stUrlYear,
                 stSeasonsReqs, stAiLast, stClicks>>
  /\ UNCHANGED exceptSt

\* fetchAINarrative resumes after checkAIStatus.
StAiStatus(i, outcome) ==
  /\ i \in 1..Len(stAiTasks)
  /\ stAiTasks[i].pc = "status"
  /\ CASE outcome = "available" ->
            /\ stAiLoading' = TRUE
            /\ stAiNarrative' = Null
            /\ stAiTasks' = [stAiTasks EXCEPT ![i].pc = "summary"]
            /\ UNCHANGED <<stAiAvailable, stAiLast>>
       [] outcome = "unavailable" ->
            /\ stAiAvailable' = FALSE
            /\ stAiLoading' = FALSE
            /\ stAiTasks' = RemoveAt(stAiTasks, i)
            /\ stAiLast' = "unavailable"
            /\ UNCHANGED stAiNarrative
       [] outcome = "error" ->
            /\ stAiLoading' = FALSE
            /\ stAiTasks' = RemoveAt(stAiTasks, i)
            /\ stAiLast' = "failed"
            /\ UNCHANGED <<stAiAvailable, stAiNarrative>>
  /\ UNCHANGED <<stLoading, stSeasons, stSelectedYear, stStandings,
                 stSeasonRecords, stLastFetchedYear, stUrlYear, stSeasonsReqs,
                 stDataTasks, stClicks>>
  /\ UNCHANGED exceptSt

\* fetchAINarrative resumes after getAISummary.
StAiSummary(i, outcome) ==
  /\ i \in 1..Len(stAiTasks)
  /\ stAiTasks[i].pc = "summary"
  /\ IF outcome = "ok"
       THEN /\ stAiNarrative' = [narrative |-> stAiTasks[i].year]
            /\ stAiLast' = "ok"
       ELSE /\ stAiLast' = "failed"
            /\ UNCHANGED stAiNarrative
  /\ stAiLoading' = FALSE
  /\ stAiTasks' = RemoveAt(stAiTasks, i)
  /\ UNCHANGED <<stLoading, stSeasons, stSelectedYear, stStandings,
                 stSeasonRecords, stAiAvailable, stLastFetchedYear, stUrlYear,
                 stSeasonsReqs, stDataTasks, stClicks>>
  /\ UNCHANGED exceptSt

\* The AI service never answers a request of fetchAINarrative: fetch has no
\* timeout and no abort signal, so the await never resumes.
StAiNeverAnswered(i) ==
  /\ i \in 1..Len(stAiTasks)
  /\ stAiTasks[i].pc \in {"status", "summary"}
  /\ stAiTasks' = [stAiTasks EXCEPT ![i].pc = "pending forever"]
  /\ UNCHANGED <<stLoading, stSeasons, stSelectedYear, stStandings,
                 stSeasonRecords, stAiNarrative, stAiLoading, stAiAvailable,
                 stLastFetchedYear, stUrlYear, stSeasonsReqs, stDataTasks,
                 stAiLast, stClicks>>
  /\ UNCHANGED exceptSt

\* handleYearChange: a season button is clicked.
StHandleYearChange(k) ==
  /\ ~stLoading
  /\ stClicks < MaxClicks
  /\ k \in 1..Len(stSeasons)
  /\ LET year == stSeasons[k].year IN
     /\ stSelectedYear' = year
     /\ stDataTasks' = StartSeasonData(stDataTasks, year, stSelectedYear)
     /\ stUrlYear' = year
     /\ stSeasonsReqs' = StartLoadSeasons(stSeasonsReqs, year, stUrlYear)
  /\ stClicks' = stClicks + 1
  /\ UNCHANGED <<stLoading, stSeasons, stStandings, stSeasonRecords,
                 stAiNarrative, stAiLoading, stAiAvailable, stLastFetchedYear,
                 stAiTasks, stAiLast>>
  /\ UNCHANGED exceptSt

\* toFixed(2) of a whole number of points: the integer part and two decimals.
ToFixed2(x) == <<x, 0>>

\* A row whose rank cell is the zero-based place in the backend's order.
StandingsRow_RankFromZero(team) ==
  [rank |-> team.rank - 1,
   manager |-> team.manager,
   record |-> team.record,
   points_for |-> ToFixed2(team.points_for),
   points_against |-> ToFixed2(team.points_against)]

StandingsRow(team) ==
  [rank |-> team.rank,
   manager |-> team.manager,
   record |-> team.record,
   points_for |-> ToFixed2(team.points_for),
   points_against |-> ToFixed2(team.points_against)]

\* A table re-sorted on the client by the Points For column.
StandingsTable_SortedByPoints(loading, data) ==
  IF ~loading /\ Truthy(data) /\ Has(data, "standings")
    THEN LET byPoints == StableSort(data.standings,
                           LAMBDA a, b : a.points_for > b.points_for)
         IN [i \in 1..Len(byPoints) |-> StandingsRow(byPoints[i])]
    ELSE <<>>

\* The standings table: one row per team, in the order of the array.
StandingsTable(loading, data) ==
  IF ~loading /\ Truthy(data) /\ Has(data, "standings")
    THEN [i \in 1..Len(data.standings) |-> StandingsRow(data.standings[i])]
    ELSE <<>>

\* A Season Highlights panel whose low-score card is filled from the
\* high-score record.
SeasonHighlights_LowFromHigh(loading, data) ==
  IF ~loading /\ Truthy(data)
     /\ (Has(data, "highest_score") \/ Has(data, "biggest_blowout"))
    THEN [c \in {f \in {"highest_score", "lowest_score", "biggest_blowout",
                        "closest_game"} : Has(data, f)} |->
            CASE c = "highest_score" ->
                   [value |-> data.highest_score.score,
                    manager |-> data.highest_score.manager,
                    week |-> data.highest_score.week]
              [] c = "lowest_score" ->
                   [value |-> data.highest_score.score,
                    manager |-> data.highest_score.manager,
                    week |-> data.highest_score.week]
              [] OTHER ->
                   [value |-> data[c].margin,
                    winner |-> data[c].winner,
                    winner_score |-> data[c].winner_score,
                    loser |-> data[c].loser,
                    loser_score |-> data[c].loser_score,
                    week |-> data[c].week]]
    ELSE <<>>

\* The Season Highlights panel: shown when there is a highest score or a
\* biggest blowout, with one card per record that is present.
SeasonHighlights(loading, data) ==
  IF ~loading /\ Truthy(data)
     /\ (Has(data, "highest_score") \/ Has(data, "biggest_blowout"))
    THEN [c \in {f \in {"highest_score", "lowest_score", "biggest_blowout",
                        "closest_game"} : Has(data, f)} |->
            CASE c = "highest_score" ->
                   [value |-> data.highest_score.score,
                    manager |-> data.highest_score.manager,
                    week |-> data.highest_score.week]
              [] c = "lowest_score" ->
                   [value |-> data.lowest_score.score,
                    manager |-> data.lowest_score.manager,
                    week |-> data.lowest_score.week]
              [] OTHER ->
                   [value |-> data[c].margin,
                    winner |-> data[c].winner,
                    winner_score |-> data[c].winner_score,
                    loser |-> data[c].loser,
                    loser_score |-> data[c].loser_score,
                    week |-> data[c].week]]
    ELSE <<>>

\* ------------------------------------------------------- player search page
\* The texts typed into the search box, as sequences of characters.
PlQueries ==
  {<<>>, <<"a">>, <<" ", "a", " ">>, <<"a", "b">>, <<" ", "a", "b">>,
   <<"b", "a">>, <<"a", " ", "b">>}

\* String.prototype.trim: the text without its leading and trailing blanks.
RECURSIVE Trim(_)
Trim(q) ==
  IF Len(q) = 0 THEN q
  ELSE IF Head(q) = " " THEN Trim(Tail(q))
  ELSE IF q[Len(q)] = " " THEN Trim(SubSeq(q, 1, Len(q) - 1))
  ELSE q

\* The clock advances by a third of the debounce delay.
PlTick ==
  /\ plNow < MaxTicks * (DebounceMs \div 3)
  /\ plNow' = plNow + DebounceMs \div 3
  /\ UNCHANGED <<plQuery, plResults, plLoading, plSearched, plTimer, plTasks,
                 plTyped, plChangedAt, plCancelled>>
  /\ UNCHANGED exceptPl

\* setQuery when the effect has no cleanup: a pending timer stays.
PlSetQuery_KeepsTimer(q) ==
  /\ plTyped < MaxTyped
  /\ q # plQuery
  /\ plQuery' = q
  /\ plTimer' = IF plTimer # Null THEN plTimer
                ELSE [q |-> q, due |-> plNow + DebounceMs]
  /\ plChangedAt' = plNow
  /\ plCancelled' = plCancelled
  /\ plTyped' = plTyped + 1
  /\ UNCHANGED <<plResults, plLoading, plSearched, plTasks, plNow>>
  /\ UNCHANGED exceptPl

\* onChange / the clear button / an example button: setQuery.  The changed
\* query re-runs the debounce effect, whose cleanup clears the pending timer
\* and which sets a new one for the new query.
PlSetQuery(q) ==
  /\ plTyped < MaxTyped
  /\ q # plQuery
  /\ plQuery' = q
  /\ plTimer' = [q |-> q, due |-> plNow + DebounceMs]
  /\ plChangedAt' = plNow
  /\ plCancelled' = (plCancelled \/ plTimer # Null)
  /\ plTyped' = plTyped + 1
  /\ UNCHANGED <<plResults, plLoading, plSearched, plTasks, plNow>>
  /\ UNCHANGED exceptPl

\* The debounce timer fires, not before it is due: doSearch(q) up to its
\* await.
PlTimerFires ==
  /\ plTimer # Null
  /\ plNow >= plTimer.due
  /\ LET q == plTimer.q IN
     IF Len(Trim(q)) < 2
       THEN /\ plResults' = <<>>
            /\ plSearched' = FALSE
            /\ UNCHANGED <<plLoading, plTasks>>
       ELSE /\ plLoading' = TRUE
            /\ plTasks' = Append(plTasks, searchPlayers(Trim(q)))
            /\ UNCHANGED <<plResults, plSearched>>
  /\ plTimer' = Null
  /\ UNCHANGED <<plQuery, plTyped, plNow, plChangedAt, plCancelled>>
  /\ UNCHANGED exceptPl

\* doSearch resumes after searchPlayers.
PlSearchDone(i) ==
  /\ i \in 1..Len(plTasks)
  /\ IF Fails(plTasks[i])
       THEN plResults' = <<>>
       ELSE LET data == Serve(plTasks[i])
            IN plResults' = IF Has(data, "players") THEN data.players ELSE <<>>
  /\ plSearched' = TRUE
  /\ plLoading' = FALSE
  /\ plTasks' = RemoveAt(plTasks, i)
  /\ UNCHANGED <<plQuery, plTimer, plTyped, plNow, plChangedAt, plCancelled>>
  /\ UNCHANGED exceptPl

\* -------------------------------------------------------------- drafts page
DraftsTabs == {"board", "report-cards", "steals-busts", "transactions"}

\* The values of the transaction-type select; "" is All Types.
TxTypes == {"", "add", "drop", "trade", "waiver"}

\* loadTabData without the checks of the data already loaded.
TabRequest_AlwaysFetches(tab, year, filter, board, cards, sb) ==
  CASE tab = "board" -> getDraftBoard(year)
    [] tab = "report-cards" -> getDraftReportCard(year)
    [] tab = "steals-busts" ->
         getDraftStealsAndBusts(year, DefaultStealsLimit)
    [] tab = "transactions" -> getTransactions(year, filter)

\* The request loadTabData awaits on a tab, given the data of its render; Null
\* when the tab's data is already there for the year.
TabRequest(tab, year, filter, board, cards, sb) ==
  CASE tab = "board" ->
         IF board = Null \/ board.season # year
           THEN getDraftBoard(year) ELSE Null
    [] tab = "report-cards" ->
         IF cards = Null \/ cards.season # year
           THEN getDraftReportCard(year) ELSE Null
    [] tab = "steals-busts" ->
         IF sb = Null \/ sb.season # year
           THEN getDraftStealsAndBusts(year, DefaultStealsLimit) ELSE Null
    [] tab = "transactions" -> getTransactions(year, filter)

\* useEffect([selectedYear, activeTab, txTypeFilter]) of a render with the
\* given year and tab: loadTabData starts, and ends at once without a request.
DrStartTabData(year, tab) ==
  IF year = NoYear
    THEN UNCHANGED <<drTabTasks, drTabLoading>>
    ELSE LET req == TabRequest(tab, year, drTxTypeFilter, drDraftBoard,
                               drReportCards, drStealsAndBusts)
         IN IF req = Null
              THEN drTabLoading' = FALSE /\ UNCHANGED drTabTasks
              ELSE /\ drTabLoading' = TRUE
                   /\ drTabTasks' =
                        Append(drTabTasks, [year |-> year, tab |-> tab, req |-> req])

\* setSelectedYear(year): both effects that depend on selectedYear run, first
\* loadTabData, then the reset of the tab data.
DrSelectYear(year) ==
  IF year = drSelectedYear
    THEN UNCHANGED <<drSelectedYear, drTabTasks, drTabLoading, drDraftBoard,
                     drReportCards, drStealsAndBusts, drTransactions,
                     drHasFetchedAI, drAiNarrative>>
    ELSE /\ drSelectedYear' = year
         /\ DrStartTabData(year, drActiveTab)
         /\ drDraftBoard' = Null
         /\ drReportCards' = Null
         /\ drStealsAndBusts' = Null
         /\ drTransactions' = Null
         /\ drHasFetchedAI' = FALSE
         /\ drAiNarrative' = Null

\* loadSeasons resumes after getDraftSeasons().catch(() => ({ seasons: [] })).
DrLoadSeasons ==
  /\ drSeasonsPending
  /\ LET data == IF Fails(getDraftSeasons) THEN [seasons |-> <<>>]
                 ELSE Serve(getDraftSeasons)
     IN /\ drSeasons' = data.seasons
        /\ IF Len(data.seasons) > 0
             THEN DrSelectYear(data.seasons[1].year)
             ELSE DrSelectYear(drSelectedYear)
  /\ drLoading' = FALSE
  /\ drSeasonsPending' = FALSE
  /\ UNCHANGED <<drActiveTab, drTxTypeFilter, drAiLoading, drAiAvailable,
                 drAiTasks, drClicks, drHistory>>
  /\ UNCHANGED exceptDr

\* The season select changes.
DrSetSelectedYear(k) ==
  /\ ~drLoading
  /\ drClicks < MaxClicks
  /\ k \in 1..Len(drSeasons)
  /\ drSeasons[k].year # drSelectedYear
  /\ DrSelectYear(drSeasons[k].year)
  /\ drClicks' = drClicks + 1
  /\ UNCHANGED drHistory
  /\ UNCHANGED <<drLoading, drSeasons, drActiveTab, drTxTypeFilter,
                 drAiLoading, drAiAvailable, drSeasonsPending, drAiTasks>>
  /\ UNCHANGED exceptDr

\* A tab button is clicked.
DrSetActiveTab(tab) ==
  /\ ~drLoading
  /\ Len(drSeasons) > 0
  /\ drClicks < MaxClicks
  /\ tab \in DraftsTabs
  /\ tab # drActiveTab
  /\ drActiveTab' = tab
  /\ DrStartTabData(drSelectedYear, tab)
  /\ drClicks' = drClicks + 1
  /\ drSwitchedCached' =
       (drSwitchedCached
        \/ (drSelectedYear # NoYear
            /\ TabRequest(tab, drSelectedYear, drTxTypeFilter, drDraftBoard,
                          drReportCards, drStealsAndBusts) = Null))
  /\ UNCHANGED drFilterChanges
  /\ UNCHANGED <<drLoading, drSeasons, drSelectedYear, drDraftBoard,
                 drReportCards, drStealsAndBusts, drTransactions,
                 drTxTypeFilter, drAiNarrative, drAiLoading, drAiAvailable,
                 drHasFetchedAI, drSeasonsPending, drAiTasks>>
  /\ UNCHANGED exceptDr

\* The transaction-type select, shown on the transactions tab once the
\* transactions are there and no tab data is loading, changes: the effect on
\* [selectedYear, activeTab, txTypeFilter] runs again.
DrSetTxTypeFilter(type) ==
  /\ ~drLoading /\ ~drTabLoading
  /\ drActiveTab = "transactions" /\ drTransactions # Null
  /\ drFilterChanges < MaxFilterChanges
  /\ type \in TxTypes
  /\ type # drTxTypeFilter
  /\ drTxTypeFilter' = type
  /\ LET req == TabRequest(drActiveTab, drSelectedYear, type, drDraftBoard,
                           drReportCards, drStealsAndBusts)
     IN /\ drTabLoading' = TRUE
        /\ drTabTasks' = Append(drTabTasks, [year |-> drSelectedYear,
                                             tab |-> drActiveTab, req |-> req])
  /\ drFilterChanges' = drFilterChanges + 1
  /\ UNCHANGED <<drLoading, drSeasons, drSelectedYear, drActiveTab,
                 drDraftBoard, drReportCards, drStealsAndBusts,
                 drTransactions, drAiNarrative, drAiLoading, drAiAvailable,
                 drHasFetchedAI, drSeasonsPending, drAiTasks, drClicks,
                 drSwitchedCached>>
  /\ UNCHANGED exceptDr

\* loadTabData resumes after its request.
DrLoadTabData(i) ==
  /\ i \in 1..Len(drTabTasks)
  /\ LET task == drTabTasks[i]
         failed == Fails(task.req)
         data == Serve(task.req)
     IN /\ drDraftBoard' =
             IF ~failed /\ task.tab = "board" THEN data ELSE drDraftBoard
        /\ drReportCards' =
             IF ~failed /\ task.tab = "report-cards" THEN data
             ELSE drReportCards
        /\ drStealsAndBusts' =
             IF ~failed /\ task.tab = "steals-busts" THEN data
             ELSE drStealsAndBusts
        /\ drTransactions' =
             IF ~failed /\ task.tab = "transactions" THEN data
             ELSE drTransactions
        /\ IF ~failed /\ task.tab = "report-cards" /\ ~drHasFetchedAI
             THEN /\ drAiTasks' = Append(drAiTasks,
                                    [year |-> task.year, pc |-> "status"])
                  /\ drHasFetchedAI' = TRUE
             ELSE UNCHANGED <<drAiTasks, drHasFetchedAI>>
  /\ drTabLoading' = FALSE
  /\ drTabTasks' = RemoveAt(drTabTasks, i)
  /\ UNCHANGED <<drLoading, drSeasons, drSelectedYear, drActiveTab,
                 drTxTypeFilter, drAiNarrative, drAiLoading, drAiAvailable,
                 drSeasonsPending, drClicks, drHistory>>
  /\ UNCHANGED exceptDr

\* fetchAINarrative of the drafts page resumes after checkAIStatus.
DrAiStatus(i, outcome) ==
  /\ i \in 1..Len(drAiTasks)
  /\ drAiTasks[i].pc = "status"
  /\ CASE outcome = "available" ->
            /\ drAiLoading' = TRUE
            /\ drAiTasks' = [drAiTasks EXCEPT ![i].pc = "summary"]
            /\ UNCHANGED drAiAvailable
       [] outcome = "unavailable" ->
            /\ drAiAvailable' = FALSE
            /\ drAiLoading' = FALSE
            /\ drAiTasks' = RemoveAt(drAiTasks, i)
       [] outcome = "error" ->
            /\ drAiLoading' = FALSE
            /\ drAiTasks' = RemoveAt(drAiTasks, i)
            /\ UNCHANGED drAiAvailable
  /\ UNCHANGED <<drLoading, drSeasons, drSelectedYear, drActiveTab,
                 drDraftBoard, drReportCards, drStealsAndBusts,
                 drTransactions, drTxTypeFilter, drTabLoading, drAiNarrative,
                 drHasFetchedAI, drSeasonsPending, drTabTasks, drClicks,
                 drHistory>>
  /\ UNCHANGED exceptDr

\* fetchAINarrative of the drafts page resumes after getAISummary.
DrAiSummary(i, outcome) ==
  /\ i \in 1..Len(drAiTasks)
  /\ drAiTasks[i].pc = "summary"
  /\ IF outcome = "ok"
       THEN drAiNarrative' = [narrative |-> drAiTasks[i].year]
       ELSE UNCHANGED drAiNarrative
  /\ drAiLoading' = FALSE
  /\ drAiTasks' = RemoveAt(drAiTasks, i)
  /\ UNCHANGED <<drLoading, drSeasons, drSelectedYear, drActiveTab,
                 drDraftBoard, drReportCards, drStealsAndBusts,
                 drTransactions, drTxTypeFilter, drTabLoading, drAiAvailable,
                 drHasFetchedAI, drSeasonsPending, drTabTasks, drClicks,
                 drHistory>>
  /\ UNCHANGED exceptDr

\* toFixed(1) of a whole number of points.
ToFixed1(x) == <<x, 0>>

\* The Pts and Grade cells of a pick defaulting a missing grade to "C".
PickCells_DefaultGrade(pick) ==
  [pick_number |-> pick.pick_number,
   player_name |-> pick.player_name,
   manager |-> pick.manager,
   points |-> IF Has(pick, "season_points") THEN ToFixed1(pick.season_points)
              ELSE <<>>,
   grade |-> IF Has(pick, "grade") /\ pick.grade # "" THEN pick.grade ELSE "C"]

\* What a pick shows on every tab: its number, player, manager, its points
\* when season_points != null, and its grade when there is one.
PickCells(pick) ==
  [pick_number |-> pick.pick_number,
   player_name |-> pick.player_name,
   manager |-> pick.manager,
   points |-> IF Has(pick, "season_points") THEN ToFixed1(pick.season_points)
              ELSE <<>>,
   grade |-> IF Has(pick, "grade") /\ pick.grade # "" THEN pick.grade ELSE ""]

DraftsShown(tab) == ~drLoading /\ ~drTabLoading /\ drActiveTab = tab

\* The rows of a draft board: the picks of every round, in the order of the
\* round keys.
BoardRows(data) ==
  LET rounds == data.rounds
      RECURSIVE Flat(_)
      Flat(R) ==
        IF R = {} THEN <<>>
        ELSE LET r == CHOOSE x \in R : \A y \in R : x <= y
             IN [i \in 1..Len(rounds[r]) |-> PickCells(rounds[r][i])]
                  \o Flat(R \ {r})
  IN Flat(DOMAIN rounds)

DraftBoardTable ==
  IF DraftsShown("board") /\ Truthy(drDraftBoard)
    THEN BoardRows(drDraftBoard)
    ELSE <<>>

\* A card whose pick rows all carry the badge of the card's overall grade.
ReportCard_CardGradeOnPicks(card) ==
  [manager |-> card.manager,
   overall_grade |-> IF Has(card, "overall_grade")
                       THEN card.overall_grade ELSE "No grade",
   total_picks |-> card.total_picks,
   steals_count |-> card.steals_count,
   busts_count |-> card.busts_count,
   picks |-> [j \in 1..Len(card.picks) |->
                [PickCells(card.picks[j]) EXCEPT
                   !.grade = IF Has(card, "overall_grade")
                               THEN card.overall_grade ELSE ""]]]

\* One report card: the team's grade, counts and picks.
ReportCardView(card) ==
  [manager |-> card.manager,
   overall_grade |-> IF Has(card, "overall_grade")
                       THEN card.overall_grade ELSE "No grade",
   total_picks |-> card.total_picks,
   steals_count |-> card.steals_count,
   busts_count |-> card.busts_count,
   picks |-> [j \in 1..Len(card.picks) |-> PickCells(card.picks[j])]]

ReportCardsPanel ==
  IF DraftsShown("report-cards") /\ Truthy(drReportCards)
    THEN [i \in 1..Len(drReportCards.report_cards) |->
            ReportCardView(drReportCards.report_cards[i])]
    ELSE <<>>

\* A panel that lists the busts under both headings.
StealsBustsPanel_BustsTwice(tab, loading, data) ==
  IF tab = "steals-busts" /\ ~loading /\ Truthy(data)
    THEN [steals |-> [i \in 1..Len(data.busts) |-> PickCells(data.busts[i])],
          busts |-> [i \in 1..Len(data.busts) |-> PickCells(data.busts[i])]]
    ELSE [steals |-> <<>>, busts |-> <<>>]

\* The steals and the busts, each in the order of its array.
StealsBustsPanel(tab, loading, data) ==
  IF tab = "steals-busts" /\ ~loading /\ Truthy(data)
    THEN [steals |-> [i \in 1..Len(data.steals) |-> PickCells(data.steals[i])],
          busts |-> [i \in 1..Len(data.busts) |-> PickCells(data.busts[i])]]
    ELSE [steals |-> <<>>, busts |-> <<>>]

\* ------------------------------------------------------ member profile page
\* loadData resumes after Promise.all of the seven requests.  The first four
\* have no catch of their own: when one of them fails Promise.all rejects,
\* the failure is logged and no state but loading is set.
MbLoadData ==
  /\ mbLoading
  /\ LET id == mbMemberId
         rejected == \/ Fails(getMember(id))
                     \/ Fails(getMemberH2H(id))
                     \/ Fails(getMemberRivalries(id))
                     \/ Fails(getMemberNotableEvents(id))
         achievementsData ==
           IF Fails(getMemberAchievements(id)) THEN <<>>
           ELSE Serve(getMemberAchievements(id))
     IN IF rejected
          THEN UNCHANGED <<mbMember, mbH2H, mbRivalries, mbNotableEvents,
                           mbAchievements, mbDraftTendencies, mbTxActivity,
                           mbFetchedData, mbAiPc>>
          ELSE /\ mbMember' = Serve(getMember(id))
               /\ mbH2H' = Serve(getMemberH2H(id))
               /\ mbRivalries' = Serve(getMemberRivalries(id))
               /\ mbNotableEvents' = Serve(getMemberNotableEvents(id))
               /\ mbAchievements' =
                    IF achievementsData # <<>>
                       /\ Has(achievementsData, "achievements")
                      THEN achievementsData.achievements ELSE <<>>
               /\ mbDraftTendencies' = FetchOrNull(getDraftTendencies(id))
               /\ mbTxActivity' =
                    FetchOrNull(getMemberTransactionActivity(id))
               /\ mbFetchedData' = [member |-> id]
               /\ mbAiPc' = "status"
  /\ mbLoading' = FALSE
  /\ UNCHANGED <<mbMemberId, mbAiInsights, mbAiLoading, mbAiAvailable>>
  /\ UNCHANGED exceptMb

\* fetchAIInsights resumes after checkAIStatus.
MbAiStatus(outcome) ==
  /\ mbAiPc = "status"
  /\ CASE outcome = "available" ->
            /\ mbAiLoading' = TRUE /\ mbAiPc' = "batch"
            /\ UNCHANGED mbAiAvailable
       [] outcome = "unavailable" ->
            /\ mbAiAvailable' = FALSE /\ mbAiLoading' = FALSE
            /\ mbAiPc' = "done"
       [] outcome = "error" ->
            /\ mbAiLoading' = FALSE /\ mbAiPc' = "done"
            /\ UNCHANGED mbAiAvailable
  /\ UNCHANGED <<mbMemberId, mbLoading, mbMember, mbH2H, mbRivalries,
                 mbNotableEvents, mbAchievements, mbDraftTendencies,
                 mbTxActivity, mbFetchedData, mbAiInsights>>
  /\ UNCHANGED exceptMb

\* fetchAIInsights resumes after getBatchInsights.
MbAiBatch(outcome) ==
  /\ mbAiPc = "batch"
  /\ mbAiInsights' = IF outcome = "ok" THEN [stats_overview |-> mbMemberId]
                     ELSE mbAiInsights
  /\ mbAiLoading' = FALSE
  /\ mbAiPc' = "done"
  /\ UNCHANGED <<mbMemberId, mbLoading, mbMember, mbH2H, mbRivalries,
                 mbNotableEvents, mbAchievements, mbDraftTendencies,
                 mbTxActivity, mbFetchedData, mbAiAvailable>>
  /\ UNCHANGED exceptMb

\* What the page renders: the spinner, "Member Not Found", or the profile
\* with the sections whose conditions hold.
MemberPageView(loading, member, h2h, rivalries, events, badges, draft, tx) ==
  IF loading THEN [page |-> "spinner", sections |-> {}]
  ELSE IF ~Truthy(member) THEN [page |-> "not-found", sections |-> {}]
  ELSE [page |-> "profile",
        sections |->
          {"header", "stats", "seasons"}
          \cup (IF Len(badges) > 0 THEN {"badges"} ELSE {})
          \cup (IF Truthy(events) THEN {"notable"} ELSE {})
          \cup (IF Truthy(rivalries) /\ Has(rivalries, "rivalries")
                   /\ Len(rivalries.rivalries) > 0
                  THEN {"rivalries"} ELSE {})
          \cup (IF Truthy(draft) /\ draft.total_picks > 0
                  THEN {"draft"} ELSE {})
          \cup (IF Truthy(tx) /\ tx.total_transactions > 0
                  THEN {"transactions"} ELSE {})
          \cup (IF Truthy(h2h) /\ Has(h2h, "head_to_head")
                   /\ Len(h2h.head_to_head) > 0
                  THEN {"h2h"} ELSE {})]

\* ------------------------------------------------------- Ask the Commish
\* init resumes after checkAIStatus.
AskInitStatus(outcome) ==
  /\ askInitPc = "status"
  /\ CASE outcome = "available" ->
            askAiAvailable' = TRUE /\ askInitPc' = "examples"
       [] outcome = "unavailable" ->
            askAiAvailable' = FALSE /\ askInitPc' = "done"
       [] outcome = "error" ->
            askInitPc' = "failed" /\ UNCHANGED askAiAvailable
  /\ UNCHANGED askExampleQuestions
  /\ UNCHANGED askChat
  /\ UNCHANGED exceptAsk

\* init resumes after getExampleQuestions.
AskInitExamples(ok) ==
  /\ askInitPc = "examples"
  /\ IF ok
       THEN askExampleQuestions' = <<"q1", "q2">> /\ askInitPc' = "done"
       ELSE askInitPc' = "failed" /\ UNCHANGED askExampleQuestions
  /\ UNCHANGED askAiAvailable
  /\ UNCHANGED askChat
  /\ UNCHANGED exceptAsk

\* The texts typed into the question box, as sequences of characters.
AskQuestions == {<<>>, <<" ">>, <<"a">>, <<" ", "b", " ">>}
Apology == "Sorry, I'm having trouble thinking right now. Try again in a moment!"
askInit == <<askAiAvailable, askExampleQuestions, askInitPc>>

\* onChange of the question box, which is disabled while loading.
AskSetQuestion(q) ==
  /\ askAiAvailable /\ ~askIsLoading
  /\ q \in AskQuestions /\ q # askQuestion
  /\ askQuestion' = q
  /\ UNCHANGED <<askMessages, askIsLoading, askTasks, askSubmits>>
  /\ UNCHANGED askInit
  /\ UNCHANGED exceptAsk

\* handleExampleClick: an example shown under an empty message list.
AskExampleClick(k) ==
  /\ askAiAvailable /\ Len(askMessages) = 0
  /\ k \in 1..Len(askExampleQuestions)
  /\ askQuestion # <<askExampleQuestions[k]>>
  /\ askQuestion' = <<askExampleQuestions[k]>>
  /\ UNCHANGED <<askMessages, askIsLoading, askTasks, askSubmits>>
  /\ UNCHANGED askInit
  /\ UNCHANGED exceptAsk

\* handleSubmit up to its await: a blank question or a request in flight
\* ends the call.
AskHandleSubmit ==
  /\ askAiAvailable
  /\ askSubmits < MaxSubmits
  /\ askSubmits' = askSubmits + 1
  /\ IF Len(Trim(askQuestion)) = 0 \/ askIsLoading
       THEN UNCHANGED <<askQuestion, askMessages, askIsLoading, askTasks>>
       ELSE LET userQuestion == Trim(askQuestion)
            IN /\ askQuestion' = <<>>
               /\ askMessages' = Append(askMessages,
                                        [role |-> "user", content |-> userQuestion])
               /\ askIsLoading' = TRUE
               /\ askTasks' = Append(askTasks, [question |-> userQuestion])
  /\ UNCHANGED askInit
  /\ UNCHANGED exceptAsk

\* handleSubmit after its await, when every failure goes unanswered.
AskAnswer_FailureSilent(i, ok) ==
  /\ i \in 1..Len(askTasks)
  /\ askMessages' =
       IF ok THEN Append(askMessages,
                         [role |-> "commish",
                          content |-> <<"answer", askTasks[i].question>>])
       ELSE askMessages
  /\ askIsLoading' = FALSE
  /\ askTasks' = RemoveAt(askTasks, i)
  /\ UNCHANGED <<askQuestion, askSubmits>>
  /\ UNCHANGED askInit
  /\ UNCHANGED exceptAsk

\* handleSubmit resumes after askCommish: the answer or the apology is
\* appended.
AskAnswer(i, ok) ==
  /\ i \in 1..Len(askTasks)
  /\ askMessages' =
       Append(askMessages,
              [role |-> "commish",
               content |-> IF ok THEN <<"answer", askTasks[i].question>>
                           ELSE Apology])
  /\ askIsLoading' = FALSE
  /\ askTasks' = RemoveAt(askTasks, i)
  /\ UNCHANGED <<askQuestion, askSubmits>>
  /\ UNCHANGED askInit
  /\ UNCHANGED exceptAsk

\* ------------------------------------------------------------- AI sidebar
ContextKeys == {"standings-2023", "standings-2024"}

\* What getAISummary answers: a narrative with or without a model name, or
\* a failure.
SbSummaryOutcomes == {"ok", "ok, no model", "error"}

\* The successful fetches of the sidebar so far.
sbHistory == <<sbOkKeys, sbLastOk>>

\* fetchSummary(force) up to its first await, whatever the refs hold: the
\* guard looks at the refs but not at force.
SbStartFetch_GuardIgnoresForce(force, key) ==
  IF sbHasFetched /\ sbLastContextKey = key
    THEN /\ sbSkipped' = TRUE
         /\ UNCHANGED <<sbIsLoading, sbError, sbTasks>>
    ELSE /\ sbIsLoading' = TRUE
         /\ sbError' = Null
         /\ sbTasks' = Append(sbTasks, [contextKey |-> key, force |-> force,
                                        pc |-> "status"])
         /\ UNCHANGED sbSkipped

\* fetchSummary(force) up to its first await.
SbStartFetch(force, key) ==
  IF ~force /\ sbHasFetched /\ sbLastContextKey = key
    THEN /\ sbSkipped' = TRUE
         /\ UNCHANGED <<sbIsLoading, sbError, sbTasks>>
    ELSE /\ sbIsLoading' = TRUE
         /\ sbError' = Null
         /\ sbTasks' = Append(sbTasks, [contextKey |-> key, force |-> force,
                                        pc |-> "status"])
         /\ UNCHANGED sbSkipped

\* The page passes another context: the effect calls fetchSummary().
SbSetContext(key) ==
  /\ key \in ContextKeys
  /\ key # sbContextKey
  /\ sbClicks < MaxSbClicks
  /\ sbContextKey' = key
  /\ SbStartFetch(FALSE, key)
  /\ sbClicks' = sbClicks + 1
  /\ UNCHANGED <<sbNarrative, sbIsAvailable, sbHasFetched, sbLastContextKey,
                 sbLast, sbModelName, sbSummaryReqs, sbForced>>
  /\ UNCHANGED sbHistory
  /\ UNCHANGED exceptSb

\* "Try again" or "Tell me another story" is clicked: fetchSummary(true).
\* The first button is rendered with an error, the second with a narrative
\* and no error, and neither while loading or when the AI is unavailable.
SbForceFetch ==
  /\ sbIsAvailable /\ ~sbIsLoading
  /\ sbError # Null \/ sbNarrative # <<>>
  /\ sbClicks < MaxSbClicks
  /\ SbStartFetch(TRUE, sbContextKey)
  /\ sbClicks' = sbClicks + 1
  /\ sbForced' = TRUE
  /\ UNCHANGED <<sbContextKey, sbNarrative, sbIsAvailable, sbHasFetched,
                 sbLastContextKey, sbLast, sbModelName, sbSummaryReqs>>
  /\ UNCHANGED sbHistory
  /\ UNCHANGED exceptSb

\* fetchSummary resumes after checkAIStatus.
SbStatus(i, outcome) ==
  /\ i \in 1..Len(sbTasks)
  /\ sbTasks[i].pc = "status"
  /\ LET key == sbTasks[i].contextKey
     IN CASE outcome = "available" ->
               /\ sbTasks' = [sbTasks EXCEPT ![i].pc = "summary"]
               /\ sbSummaryReqs' =
                    [sbSummaryReqs EXCEPT ![key] = sbSummaryReqs[key] + 1]
               /\ UNCHANGED <<sbIsAvailable, sbIsLoading, sbError, sbLast>>
          [] outcome = "unavailable" ->
               /\ sbIsAvailable' = FALSE
               /\ sbIsLoading' = FALSE
               /\ sbTasks' = RemoveAt(sbTasks, i)
               /\ sbLast' = "unavailable"
               /\ UNCHANGED <<sbError, sbSummaryReqs>>
          [] outcome = "error" ->
               /\ sbError' = [message |-> "Failed to fetch"]
               /\ sbIsLoading' = FALSE
               /\ sbTasks' = RemoveAt(sbTasks, i)
               /\ sbLast' = "failed"
               /\ UNCHANGED <<sbIsAvailable, sbSummaryReqs>>
  /\ UNCHANGED <<sbContextKey, sbNarrative, sbHasFetched, sbLastContextKey,
                 sbModelName, sbForced, sbSkipped, sbClicks>>
  /\ UNCHANGED sbHistory
  /\ UNCHANGED exceptSb

\* The AI service never answers a request of fetchSummary.
SbNeverAnswered(i) ==
  /\ i \in 1..Len(sbTasks)
  /\ sbTasks[i].pc \in {"status", "summary"}
  /\ sbTasks' = [sbTasks EXCEPT ![i].pc = "pending forever"]
  /\ UNCHANGED <<sbContextKey, sbNarrative, sbIsLoading, sbError,
                 sbIsAvailable, sbHasFetched, sbLastContextKey, sbLast,
                 sbModelName, sbSummaryReqs, sbForced, sbSkipped, sbClicks>>
  /\ UNCHANGED sbHistory
  /\ UNCHANGED exceptSb

\* fetchSummary resumes after getAISummary.
SbSummary(i, outcome) ==
  /\ i \in 1..Len(sbTasks)
  /\ sbTasks[i].pc = "summary"
  /\ LET key == sbTasks[i].contextKey
     IN IF outcome \in {"ok", "ok, no model"}
          THEN /\ sbNarrative' = <<"narrative", key>>
               /\ sbModelName' = IF outcome = "ok" THEN "model of the answer"
                                 ELSE sbModelName
               /\ sbHasFetched' = TRUE
               /\ sbLastContextKey' = key
               /\ sbLast' = "ok"
               /\ sbOkKeys' = sbOkKeys \cup {key}
               /\ sbLastOk' = key
               /\ UNCHANGED sbError
          ELSE /\ sbError' = [message |-> "Failed to generate summary"]
               /\ sbLast' = "failed"
               /\ UNCHANGED <<sbNarrative, sbHasFetched, sbLastContextKey,
                              sbModelName>>
               /\ UNCHANGED sbHistory
  /\ sbIsLoading' = FALSE
  /\ sbTasks' = RemoveAt(sbTasks, i)
  /\ UNCHANGED <<sbContextKey, sbIsAvailable, sbSummaryReqs, sbForced,
                 sbSkipped, sbClicks>>
  /\ UNCHANGED exceptSb

\* ---------------------------------------------------------- initial states
\* Career aggregates of a member.  The terms are 0..100; the profiles span
\* both ends of the range and make every tie the ranking order has to break.
Career(w, c, p, n, s, y, k) ==
  [win_percentage |-> w, championship_rate |-> c, playoff_percentage |-> p,
   norm_ppg |-> n, norm_seasons |-> s, seasons |-> y, championships |-> k]

CareerProfiles ==
  {Career(100, 100, 100, 100, 100, 2, 2),
   Career(0, 0, 0, 0, 0, 1, 0),
   Career(100, 0, 0, 0, 0, 1, 0),
   Career(0, 0, 100, 50, 100, 2, 0),
   Career(0, 100, 100, 100, 0, 1, 1),
   Career(0, 100, 100, 0, 100, 2, 2)}

FixedCareers == [m \in Members |-> Career(0, 0, 0, 0, 0, 1, 0)]

InitRecordsPage ==
  /\ recLoading = TRUE
  /\ records = Null /\ h2hMatrix = Null /\ luckAnalysis = Null
  /\ powerRankings = Null
  /\ recActiveTab = "power"
  /\ recAiNarrative = Null /\ recAiLoading = FALSE /\ recAiAvailable = TRUE
  /\ recHasFetched = FALSE /\ recAiPc = "idle"

\* The standings page as it mounts at a URL: loadSeasons is awaiting getSeasons.
InitStandingsPage(urlYear) ==
  /\ stLoading = TRUE
  /\ stSeasons = <<>>
  /\ stSelectedYear = NoYear
  /\ stStandings = Null /\ stSeasonRecords = Null
  /\ stAiNarrative = Null /\ stAiLoading = FALSE /\ stAiAvailable = TRUE
  /\ stLastFetchedYear = NoYear
  /\ stUrlYear = urlYear
  /\ stSeasonsReqs = <<[yearParam |-> urlYear]>>
  /\ stDataTasks = <<>> /\ stAiTasks = <<>>
  /\ stAiLast = "none"
  /\ stClicks = 0

\* The player search page as it mounts: the debounce timer of the empty
\* query is pending.
InitPlayersPage ==
  /\ plQuery = <<>>
  /\ plResults = <<>>
  /\ plLoading = FALSE
  /\ plSearched = FALSE
  /\ plTimer = [q |-> <<>>, due |-> DebounceMs]
  /\ plTasks = <<>>
  /\ plTyped = 0
  /\ plNow = 0 /\ plChangedAt = 0
  /\ plCancelled = FALSE

\* The drafts page as it mounts: loadSeasons is awaiting getDraftSeasons.
InitDraftsPage ==
  /\ drLoading = TRUE
  /\ drSeasons = <<>>
  /\ drSelectedYear = NoYear
  /\ drActiveTab = "report-cards"
  /\ drDraftBoard = Null /\ drReportCards = Null
  /\ drStealsAndBusts = Null /\ drTransactions = Null
  /\ drTxTypeFilter = ""
  /\ drTabLoading = FALSE
  /\ drAiNarrative = Null /\ drAiLoading = FALSE /\ drAiAvailable = TRUE
  /\ drHasFetchedAI = FALSE
  /\ drSeasonsPending = TRUE
  /\ drTabTasks = <<>> /\ drAiTasks = <<>>
  /\ drClicks = 0
  /\ drFilterChanges = 0 /\ drSwitchedCached = FALSE

\* The widget as it mounts: init is awaiting checkAIStatus.
InitAskTheCommish ==
  /\ askAiAvailable = TRUE
  /\ askExampleQuestions = <<>>
  /\ askInitPc = "status"
  /\ askQuestion = <<>>
  /\ askMessages = <<>>
  /\ askIsLoading = FALSE
  /\ askTasks = <<>>
  /\ askSubmits = 0

\* The sidebar as it mounts with a context: fetchSummary is awaiting
\* checkAIStatus.
InitAISidebar(key) ==
  /\ sbContextKey = key
  /\ sbNarrative = <<>>
  /\ sbIsLoading = TRUE
  /\ sbError = Null
  /\ sbIsAvailable = TRUE
  /\ sbHasFetched = FALSE
  /\ sbLastContextKey = ""
  /\ sbTasks = <<[contextKey |-> key, force |-> FALSE, pc |-> "status"]>>
  /\ sbLast = "none"
  /\ sbModelName = "Claude AI"
  /\ sbSummaryReqs = [k \in ContextKeys |-> 0]
  /\ sbOkKeys = {} /\ sbLastOk = ""
  /\ sbForced = FALSE /\ sbSkipped = FALSE
  /\ sbClicks = 0

\* The member profile page as it mounts: loadData is awaiting Promise.all.
InitMemberPage(id) ==
  /\ mbMemberId = id
  /\ mbLoading = TRUE
  /\ mbMember = Null /\ mbH2H = Null /\ mbRivalries = Null
  /\ mbNotableEvents = Null
  /\ mbAchievements = <<>>
  /\ mbDraftTendencies = Null /\ mbTxActivity = Null
  /\ mbFetchedData = Null
  /\ mbAiInsights = <<>> /\ mbAiLoading = FALSE /\ mbAiAvailable = TRUE
  /\ mbAiPc = "idle"

InitFrontend ==
  /\ InitRecordsPage
  /\ InitStandingsPage(NoYear)
  /\ InitDraftsPage
  /\ InitAskTheCommish
  /\ InitAISidebar("standings-2024")
  /\ InitMemberPage(1)
  /\ InitPlayersPage

\* The records page over every assignment of career profiles to members.
InitPower ==
  /\ apiDown \in {{}, RecordsEndpoints}
  /\ careers \in [Members -> CareerProfiles]
  /\ matchups = <<>>
  /\ draftPicks = <<>>
  /\ InitFrontend

NextRecordsLoad == RecLoadData

SpecPower == InitPower /\ [][NextRecordsLoad]_vars

\* The records page over every one-season history of matchups.
InitMatchups ==
  /\ apiDown \in {{}, RecordsEndpoints}
  /\ careers = FixedCareers
  /\ matchups \in SeasonHistories(2024)
  /\ draftPicks = <<>>
  /\ InitFrontend

SpecMatchups == InitMatchups /\ [][NextRecordsLoad]_vars

\* The standings page over every one-season history of matchups.
InitStandings ==
  /\ apiDown \in {{}, {"/api/records/season"}, StandingsEndpoints}
  /\ careers = FixedCareers
  /\ matchups \in SeasonHistories(2024)
  /\ draftPicks = <<>>
  /\ InitFrontend

NextStandingsLoad ==
  \/ \E i \in 1..Len(stSeasonsReqs) : StLoadSeasons(i)
  \/ \E i \in 1..Len(stDataTasks) : StLoadStandings(i)
  \/ \E i \in 1..Len(stDataTasks) : StLoadSeasonRecords(i)

SpecStandings == InitStandings /\ [][NextStandingsLoad]_vars

\* The drafts page over two drafted seasons.
InitDrafts ==
  /\ apiDown \in {{}, {"/api/drafts/board"}}
  /\ careers = FixedCareers
  /\ matchups = <<>>
  /\ \E p1 \in {d \in DraftProfiles : d.rot = 1 /\ d.missing = {}},
        p2 \in DraftProfiles :
       draftPicks = DraftOf(2023, p1) \o DraftOf(2024, p2)
  /\ InitFrontend

NextDraftsLoad ==
  \/ DrLoadSeasons
  \/ \E i \in 1..Len(drTabTasks) : DrLoadTabData(i)
  \/ \E tab \in DraftsTabs : DrSetActiveTab(tab)

SpecDrafts == InitDrafts /\ [][NextDraftsLoad]_vars

\* One history of a season: alternating pairings, scores fixed by the week.
RECURSIVE FixedSeason(_, _)
FixedSeason(year, weeks) ==
  IF weeks = 0 THEN <<>>
  ELSE FixedSeason(year, weeks - 1) \o
       WeekMatchups(year, weeks,
                    IF weeks % 2 = 1 THEN PairingA ELSE PairingB,
                    [m \in Members |->
                       IF (m + weeks + year) % 3 = 0 THEN 110 ELSE 90])

\* The standings page over full seasons: each has a star team that wins ten
\* of its fourteen games with the highest points-for of the league, and a
\* rival with any number of high-scoring weeks.
InitFullSeason ==
  /\ apiDown = {}
  /\ careers = FixedCareers
  /\ \E star \in {1, 7, LeagueTeams}, rival \in {2, 3},
        starLoses \in {{1, 2, 3, 4}, {2, 6, 10, 14}},
        high \in 0..RegularSeasonWeeks :
       matchups = FullSeason(2024, star, starLoses, rival, high,
                             RegularSeasonWeeks)
  /\ draftPicks = <<>>
  /\ InitFrontend

SpecFullSeason == InitFullSeason /\ [][NextStandingsLoad]_vars

\* The standings page, the Ask the Commish widget and an AI sidebar as they
\* load over a league of two seasons, with every outcome of the requests to
\* the AI service.
InitAI ==
  /\ apiDown \in {{}, {"/api/records/season"}}
  /\ careers = FixedCareers
  /\ matchups = FixedSeason(2023, NumWeeks) \o FixedSeason(2024, NumWeeks)
  /\ draftPicks = <<>>
  /\ InitFrontend

NextAI ==
  \/ \E i \in 1..Len(stSeasonsReqs) : StLoadSeasons(i)
  \/ \E i \in 1..Len(stDataTasks) : StLoadStandings(i)
  \/ \E i \in 1..Len(stDataTasks) : StLoadSeasonRecords(i)
  \/ \E i \in 1..Len(stAiTasks), o \in AiStatusOutcomes : StAiStatus(i, o)
  \/ \E i \in 1..Len(stAiTasks), o \in AiSummaryOutcomes : StAiSummary(i, o)
  \/ \E o \in AiStatusOutcomes : AskInitStatus(o)
  \/ \E ok \in BOOLEAN : AskInitExamples(ok)
  \/ \E i \in 1..Len(sbTasks), o \in AiStatusOutcomes : SbStatus(i, o)
  \/ \E i \in 1..Len(sbTasks), o \in AiSummaryOutcomes : SbSummary(i, o)

SpecAI == InitAI /\ [][NextAI]_vars

\* The standings page over two seasons with the season buttons clicked at any
\* moment, so that requests for different years are in flight together and
\* are answered in any order.
InitYears ==
  /\ apiDown \in {{}, {"/api/records/season"}}
  /\ careers = FixedCareers
  /\ matchups = FixedSeason(2023, NumWeeks) \o FixedSeason(2024, NumWeeks)
  /\ draftPicks = <<>>
  /\ InitRecordsPage
  /\ \E y \in {NoYear, 2023} : InitStandingsPage(y)
  /\ InitDraftsPage
  /\ InitAskTheCommish
  /\ InitAISidebar("standings-2024")
  /\ InitMemberPage(1)
  /\ InitPlayersPage

NextYears ==
  \/ \E i \in 1..Len(stSeasonsReqs) : StLoadSeasons(i)
  \/ \E i \in 1..Len(stDataTasks) : StLoadStandings(i)
  \/ \E i \in 1..Len(stDataTasks) : StLoadSeasonRecords(i)
  \/ \E k \in 1..Len(stSeasons) : StHandleYearChange(k)
  \/ \E i \in 1..Len(stAiTasks), o \in AiStatusOutcomes : StAiStatus(i, o)
  \/ \E i \in 1..Len(stAiTasks), o \in AiSummaryOutcomes : StAiSummary(i, o)

SpecYears == InitYears /\ [][NextYears]_vars

\* The drafts page over two drafted seasons with the season and the tab
\* changed at any moment, so that requests for both seasons are in flight
\* together and are answered in any order.
InitDraftSeasons ==
  /\ apiDown \in {{}, {"/api/drafts/board"}}
  /\ careers = FixedCareers
  /\ matchups = <<>>
  /\ LET p == CHOOSE d \in DraftProfiles : d.rot = 1 /\ d.missing = {}
     IN draftPicks = DraftOf(2023, p) \o DraftOf(2024, p)
  /\ InitFrontend

NextDraftSeasons ==
  \/ DrLoadSeasons
  \/ \E i \in 1..Len(drTabTasks) : DrLoadTabData(i)
  \/ \E tab \in DraftsTabs : DrSetActiveTab(tab)
  \/ \E k \in 1..Len(drSeasons) : DrSetSelectedYear(k)
  \/ \E i \in 1..Len(drAiTasks), o \in AiStatusOutcomes : DrAiStatus(i, o)
  \/ \E i \in 1..Len(drAiTasks), o \in AiSummaryOutcomes : DrAiSummary(i, o)

SpecDraftSeasons == InitDraftSeasons /\ [][NextDraftSeasons]_vars

\* The drafts page over two drafted seasons with the tab, the season and the
\* transaction-type filter changed at any moment.
NextDraftTabs ==
  \/ DrLoadSeasons
  \/ \E i \in 1..Len(drTabTasks) : DrLoadTabData(i)
  \/ \E tab \in DraftsTabs : DrSetActiveTab(tab)
  \/ \E k \in 1..Len(drSeasons) : DrSetSelectedYear(k)
  \/ \E type \in TxTypes : DrSetTxTypeFilter(type)

SpecDraftTabs == InitDraftSeasons /\ [][NextDraftTabs]_vars

\* An AI sidebar whose page changes the context and whose buttons are
\* clicked at any moment, with every outcome of the requests to the AI
\* service.
InitSidebar ==
  /\ apiDown = {}
  /\ careers = FixedCareers
  /\ matchups = <<>>
  /\ draftPicks = <<>>
  /\ InitRecordsPage
  /\ InitStandingsPage(NoYear)
  /\ InitDraftsPage
  /\ InitAskTheCommish
  /\ \E key \in ContextKeys : InitAISidebar(key)
  /\ InitMemberPage(1)
  /\ InitPlayersPage

NextSidebar ==
  \/ \E key \in ContextKeys : SbSetContext(key)
  \/ SbForceFetch
  \/ \E i \in 1..Len(sbTasks), o \in AiStatusOutcomes : SbStatus(i, o)
  \/ \E i \in 1..Len(sbTasks), o \in SbSummaryOutcomes : SbSummary(i, o)

SpecSidebar == InitSidebar /\ [][NextSidebar]_vars

\* The Ask the Commish chat with questions typed and submitted at any moment.
InitChat ==
  /\ apiDown = {}
  /\ careers = FixedCareers
  /\ matchups = <<>>
  /\ draftPicks = <<>>
  /\ InitFrontend

NextChat ==
  \/ \E o \in AiStatusOutcomes : AskInitStatus(o)
  \/ \E ok \in BOOLEAN : AskInitExamples(ok)
  \/ \E q \in AskQuestions : AskSetQuestion(q)
  \/ \E k \in 1..Len(askExampleQuestions) : AskExampleClick(k)
  \/ AskHandleSubmit
  \/ \E i \in 1..Len(askTasks), ok \in BOOLEAN : AskAnswer(i, ok)

SpecChat == InitChat /\ [][NextChat]_vars

\* The player search page with the query changed at any moment, so that a
\* timer and several searches can be pending together.
InitPlayers ==
  /\ apiDown \in {{}, {"/api/players/search"}}
  /\ careers = FixedCareers
  /\ matchups = <<>>
  /\ draftPicks = <<>>
  /\ InitFrontend

NextPlayers ==
  \/ \E q \in PlQueries : PlSetQuery(q)
  \/ PlTimerFires
  \/ \E i \in 1..Len(plTasks) : PlSearchDone(i)
  \/ PlTick

SpecPlayers == InitPlayers /\ [][NextPlayers]_vars

\* The standings page opened at a URL without a year parameter, with the
\* year of a listed season and with a year that is not listed, and the
\* season buttons clicked at any moment.
InitUrlYear ==
  /\ apiDown \in {{}, {"/api/records/season"}}
  /\ careers = FixedCareers
  /\ matchups = FixedSeason(2023, NumWeeks) \o FixedSeason(2024, NumWeeks)
  /\ draftPicks = <<>>
  /\ InitRecordsPage
  /\ \E y \in {NoYear, 1999, 2023, 2024} : InitStandingsPage(y)
  /\ InitDraftsPage
  /\ InitAskTheCommish
  /\ InitAISidebar("standings-2024")
  /\ InitMemberPage(1)
  /\ InitPlayersPage

NextUrlYear ==
  \/ \E i \in 1..Len(stSeasonsReqs) : StLoadSeasons(i)
  \/ \E i \in 1..Len(stDataTasks) : StLoadStandings(i)
  \/ \E i \in 1..Len(stDataTasks) : StLoadSeasonRecords(i)
  \/ \E k \in 1..Len(stSeasons) : StHandleYearChange(k)

SpecUrlYear == InitUrlYear /\ [][NextUrlYear]_vars

\* The records page over every subset of failing endpoints, with and without
\* synced matchups, and the tabs clicked in any order.
InitRecordsTabs ==
  /\ apiDown \in SUBSET RecordsEndpoints
  /\ careers = FixedCareers
  /\ matchups \in {<<>>, FixedSeason(2024, NumWeeks)}
  /\ draftPicks = <<>>
  /\ InitFrontend

NextRecordsTabs ==
  \/ RecLoadData
  \/ \E tab \in RecordsTabs : RecSetActiveTab(tab)

SpecRecordsTabs == InitRecordsTabs /\ [][NextRecordsTabs]_vars

\* The member profile page of each member over every subset of failing
\* endpoints.
InitMember ==
  /\ apiDown \in SUBSET MemberEndpoints
  /\ careers = FixedCareers
  /\ matchups = FixedSeason(2024, NumWeeks)
  /\ draftPicks = <<>>
  /\ InitRecordsPage
  /\ InitStandingsPage(NoYear)
  /\ InitDraftsPage
  /\ InitAskTheCommish
  /\ InitAISidebar("standings-2024")
  /\ \E id \in {1, NumMembers} : InitMemberPage(id)
  /\ InitPlayersPage

NextMember ==
  \/ MbLoadData
  \/ \E o \in AiStatusOutcomes : MbAiStatus(o)
  \/ \E o \in AiSummaryOutcomes : MbAiBatch(o)

SpecMember == InitMember /\ [][NextMember]_vars

\* The same components when the AI service may also leave a request
\* unanswered.
NextAIAnswers ==
  \/ NextAI
  \/ \E i \in 1..Len(stAiTasks) : StAiNeverAnswered(i)
  \/ \E i \in 1..Len(sbTasks) : SbNeverAnswered(i)

\* An answer of the AI service resumes the handler that awaits it.
AiAnswers ==
  \/ \E i \in 1..Len(stAiTasks), o \in AiStatusOutcomes : StAiStatus(i, o)
  \/ \E i \in 1..Len(stAiTasks), o \in AiSummaryOutcomes : StAiSummary(i, o)
  \/ \E i \in 1..Len(sbTasks), o \in AiStatusOutcomes : SbStatus(i, o)
  \/ \E i \in 1..Len(sbTasks), o \in AiSummaryOutcomes : SbSummary(i, o)

\* A request that is not left unanswered is eventually answered.
SpecAIAnswers == InitAI /\ [][NextAIAnswers]_vars /\ WF_vars(AiAnswers)

\* ===================================================================== claims
MemberNamed(name) == CHOOSE m \in Members : NameOf(m) = name
TermGrid == {0, 50, 100}

\* C1: the power score is the weighted sum of the five terms with weights
\* 35, 25, 20, 10, 10 percent, which sum to 100 percent, and for terms in
\* 0..100 the score (in hundredths) lies in 0..100.00, for every term vector
\* of the grid and for every row of the Power Rankings table.
Thm_C1_PowerScoreWeightsAndRange ==
  /\ <<W_WIN_PCT, W_CHAMPIONSHIPS, W_PLAYOFF_RATE, W_POINTS_PER_GAME,
       W_SEASONS_PLAYED>> = <<35, 25, 20, 10, 10>>
  /\ W_WIN_PCT + W_CHAMPIONSHIPS + W_PLAYOFF_RATE + W_POINTS_PER_GAME
       + W_SEASONS_PLAYED = 100
  /\ \A w, c, p, n, s \in TermGrid :
        PowerScoreTerms(w, c, p, n, s) \in 0..10000
  /\ LET rows == PowerTable(powerRankings)
     IN \A i \in 1..Len(rows) :
          LET career == careers[MemberNamed(rows[i].member)]
          IN /\ rows[i].power_score =
                  35 * career.win_percentage + 25 * career.championship_rate
                    + 20 * career.playoff_percentage + 10 * career.norm_ppg
                    + 10 * career.norm_seasons
             /\ rows[i].power_score \in 0..10000

\* C1 witness: a loaded table holding a maximal score and an interior one.
Wit_C1_PowerScoreLoaded ==
  LET rows == PowerTable(powerRankings)
  IN /\ ~recLoading
     /\ \E i \in 1..Len(rows) : rows[i].power_score = 10000
     /\ \E i \in 1..Len(rows) : rows[i].power_score = 3500

C2_Precedes(a, b) ==
  \/ a.power_score > b.power_score
  \/ a.power_score = b.power_score /\ a.win_percentage > b.win_percentage
  \/ a.power_score = b.power_score /\ a.win_percentage = b.win_percentage
       /\ a.championships > b.championships
  \/ a.power_score = b.power_score /\ a.win_percentage = b.win_percentage
       /\ a.championships = b.championships
       /\ AlphaIndex(a.member) < AlphaIndex(b.member)

\* C2: the Power Rankings table lists every member exactly once, row i has
\* rank i, and any earlier row precedes any later row by power score
\* descending, then win % descending, then championships descending, then
\* member name ascending.
Thm_C2_PowerRankingTotalOrder ==
  LET rows == PowerTable(powerRankings)
  IN Truthy(powerRankings) =>
       /\ Len(rows) = NumMembers
       /\ {rows[i].member : i \in 1..Len(rows)} = {NameOf(m) : m \in Members}
       /\ \A i \in 1..Len(rows) : rows[i].rank = i
       /\ \A i, j \in 1..Len(rows) : i < j => C2_Precedes(rows[i], rows[j])

\* C2 witness: a loaded table with one tie in power score broken by
\* championships and one tie in everything but the name.
Wit_C2_TiesBroken ==
  LET rows == PowerTable(powerRankings)
  IN /\ Truthy(powerRankings)
     /\ \E i \in 1..(Len(rows) - 1) :
          /\ rows[i].power_score = rows[i + 1].power_score
          /\ rows[i].win_percentage = rows[i + 1].win_percentage
          /\ rows[i].championships > rows[i + 1].championships
     /\ \E i \in 1..(Len(rows) - 1) :
          /\ rows[i].power_score = rows[i + 1].power_score
          /\ rows[i].win_percentage = rows[i + 1].win_percentage
          /\ rows[i].championships = rows[i + 1].championships

\* The (game of m, other member) pairs where the other member's score of the
\* same week is below m's.
C5_Beaten(m) ==
  {<<i, o>> \in (1..Len(matchups)) \X (Members \ {m}) :
     /\ PlayedIn(matchups[i], m)
     /\ \E j \in 1..Len(matchups) :
          /\ matchups[j].season = matchups[i].season
          /\ matchups[j].week = matchups[i].week
          /\ PlayedIn(matchups[j], o)
          /\ ScoreOf(matchups[j], o) < ScoreOf(matchups[i], m)}

C6_Cell(table, rowName, colName) ==
  LET r == CHOOSE i \in 1..Len(table) : table[i].row_name = rowName
      c == CHOOSE j \in 1..Len(table[r].cells) :
             table[r].cells[j].col_name = colName
  IN table[r].cells[c]

\* C6: in the H2H table a member's own cell holds no record, and for distinct
\* members A and B the cell of A against B holds a record exactly when the
\* cell of B against A does, with A's wins equal to B's losses and A's losses
\* equal to B's wins; in the matrix data no member lists themselves as an
\* opponent and the ties of A against B equal those of B against A.
Thm_C6_H2HAntisymmetric ==
  LET table == H2HTable(h2hMatrix)
      names == {table[i].row_name : i \in 1..Len(table)}
  IN /\ \A a \in names : C6_Cell(table, a, a).kind = "self"
     /\ \A a, b \in names : a # b =>
          LET ab == C6_Cell(table, a, b)
              ba == C6_Cell(table, b, a)
          IN /\ ab.kind # "self"
             /\ (ab.kind = "record") = (ba.kind = "record")
             /\ ab.kind = "record" =>
                  ab.wins = ba.losses /\ ab.losses = ba.wins
     /\ Truthy(h2hMatrix) /\ Has(h2hMatrix, "matrix") =>
          \A i \in 1..Len(h2hMatrix.matrix) :
            LET row == h2hMatrix.matrix[i]
            IN \A k \in 1..Len(row.opponents) :
                 /\ row.opponents[k].opponent_name # row.member_name
                 /\ \E j \in 1..Len(h2hMatrix.matrix) :
                      LET back == h2hMatrix.matrix[j]
                      IN /\ back.member_name = row.opponents[k].opponent_name
                         /\ \E l \in 1..Len(back.opponents) :
                              /\ back.opponents[l].opponent_name = row.member_name
                              /\ back.opponents[l].ties = row.opponents[k].ties
                              /\ back.opponents[l].wins = row.opponents[k].losses
                              /\ back.opponents[l].losses = row.opponents[k].wins

\* C6 witness: a loaded H2H table with a pair that met twice and won once
\* each, a pair that never met, and a pair that tied twice.
Wit_C6_H2HLoaded ==
  LET table == H2HTable(h2hMatrix)
      names == {table[i].row_name : i \in 1..Len(table)}
  IN /\ \E a, b \in names :
          /\ C6_Cell(table, a, b).kind = "record"
          /\ C6_Cell(table, a, b).wins = 1 /\ C6_Cell(table, a, b).losses = 1
     /\ \E a, b \in names : C6_Cell(table, a, b).kind = "none"
     /\ \E i \in 1..Len(h2hMatrix.matrix) :
          \E k \in 1..Len(h2hMatrix.matrix[i].opponents) :
            h2hMatrix.matrix[i].opponents[k].ties = 2

\* The standings table the page shows.
C3_Table == StandingsTable(stLoading, stStandings)
C3_Wins(row) == row.record[1]
C3_Losses(row) == row.record[2]
C3_Ties(row) == IF Len(row.record) = 3 THEN row.record[3] ELSE 0

\* C3: the standings list is ordered by wins descending, ties in wins broken
\* by points-for descending: for any two teams a listed before b,
\* wins(a) > wins(b), or wins(a) = wins(b) and points_for(a) >= points_for(b);
\* the rank column counts the rows from 1.
Thm_C3_StandingsOrdered ==
  /\ \A i, j \in 1..Len(C3_Table) :
       i < j =>
         \/ C3_Wins(C3_Table[i]) > C3_Wins(C3_Table[j])
         \/ /\ C3_Wins(C3_Table[i]) = C3_Wins(C3_Table[j])
            /\ C3_Table[i].points_for[1] >= C3_Table[j].points_for[1]
  /\ \A i \in 1..Len(C3_Table) : C3_Table[i].rank = i

\* A loaded table in which wins decide one pair of rows and points-for decide
\* another pair that is tied on wins.
Wit_C3_StandingsLoaded ==
  /\ Len(C3_Table) = NumMembers
  /\ \E i \in 1..(Len(C3_Table) - 1) :
       C3_Wins(C3_Table[i]) > C3_Wins(C3_Table[i + 1])
  /\ \E i \in 1..(Len(C3_Table) - 1) :
       /\ C3_Wins(C3_Table[i]) = C3_Wins(C3_Table[i + 1])
       /\ C3_Table[i].points_for[1] > C3_Table[i + 1].points_for[1]

\* The matchups of the selected season, and a team's results counted from them.
C4_Games == SelectSeq(matchups, LAMBDA g : g.season = stSelectedYear)
C4_Count(P(_)) == Cardinality({k \in 1..Len(C4_Games) : P(C4_Games[k])})
C4_WinsOf(m) ==
  C4_Count(LAMBDA g : \/ (g.team1 = m /\ g.score1 > g.score2)
                      \/ (g.team2 = m /\ g.score2 > g.score1))
C4_LossesOf(m) ==
  C4_Count(LAMBDA g : \/ (g.team1 = m /\ g.score1 < g.score2)
                      \/ (g.team2 = m /\ g.score2 < g.score1))
C4_TiesOf(m) ==
  C4_Count(LAMBDA g : (g.team1 = m \/ g.team2 = m) /\ g.score1 = g.score2)
C4_Total(F(_)) == SeqSum([i \in 1..Len(C3_Table) |-> F(C3_Table[i])])
C4_MatchupsOf(teams, weeks) == (teams * weeks) \div 2

\* C4: each team's win/loss/tie counts in the standings equal the counts
\* derived from the season's matchups; the wins of all teams sum to the
\* losses of all teams; the number of matchups is the number of team-games
\* divided by two, which is teams * weeks / 2 when every team plays every
\* week, 84 for 12 teams and 14 weeks.
Thm_C4_RecordsMatchMatchups ==
  Len(C3_Table) > 0 =>
    /\ \A i \in 1..Len(C3_Table) :
         LET row == C3_Table[i]
             m == MemberNamed(row.manager)
         IN /\ C3_Wins(row) = C4_WinsOf(m)
            /\ C3_Losses(row) = C4_LossesOf(m)
            /\ C3_Ties(row) = C4_TiesOf(m)
    /\ C4_Total(C3_Wins) = C4_Total(C3_Losses)
    /\ 2 * Len(C4_Games) =
         C4_Total(LAMBDA r : C3_Wins(r) + C3_Losses(r) + C3_Ties(r))
    /\ (\A i \in 1..Len(C3_Table) :
          C3_Wins(C3_Table[i]) + C3_Losses(C3_Table[i]) + C3_Ties(C3_Table[i])
            = NumWeeks)
         => Len(C4_Games) = C4_MatchupsOf(Len(C3_Table), NumWeeks)
    /\ C4_MatchupsOf(12, 14) = 84

\* A loaded table of a season with wins, losses and a tie.
Wit_C4_RecordsLoaded ==
  /\ Len(C3_Table) = NumMembers
  /\ Len(C4_Games) > 0
  /\ \E i \in 1..Len(C3_Table) : C3_Ties(C3_Table[i]) > 0
  /\ \E i \in 1..Len(C3_Table) :
       C3_Wins(C3_Table[i]) > 0 /\ C3_Losses(C3_Table[i]) > 0


\* The panels the drafts page shows, and the season each is about.
C9_Panel ==
  StealsBustsPanel(drActiveTab, drLoading \/ drTabLoading, drStealsAndBusts)
C7_CardRows ==
  LET RECURSIVE Go(_)
      Go(i) == IF i = 0 THEN <<>> ELSE Go(i - 1) \o ReportCardsPanel[i].picks
  IN Go(Len(ReportCardsPanel))
\* Every pick row on the screen, with the season of the data it came from.
C7_Shown ==
  {[season |-> drDraftBoard.season, row |-> DraftBoardTable[i]] :
     i \in 1..Len(DraftBoardTable)}
  \cup {[season |-> drReportCards.season, row |-> C7_CardRows[i]] :
     i \in 1..Len(C7_CardRows)}
  \cup {[season |-> drStealsAndBusts.season, row |-> C9_Panel.steals[i]] :
     i \in 1..Len(C9_Panel.steals)}
  \cup {[season |-> drStealsAndBusts.season, row |-> C9_Panel.busts[i]] :
     i \in 1..Len(C9_Panel.busts)}
\* The pick rows of the draft board of every season.
C7_BoardOf(y) ==
  LET rows == BoardRows(DraftBoardResponse(y))
  IN {[season |-> y, row |-> rows[i]] : i \in 1..Len(rows)}
C7_AllBoards == C7_BoardOf(2023) \cup C7_BoardOf(2024)
\* The raw pick of a row, and its ranks derived from the raw picks.
C7_Raw(x) ==
  CHOOSE i \in 1..Len(draftPicks) :
    /\ draftPicks[i].season = x.season
    /\ draftPicks[i].pick_number = x.row.pick_number
C7_HasData(x) == "season_points" \in DOMAIN draftPicks[C7_Raw(x)]
C7_DraftRank(x) == x.row.pick_number
C7_PerfRank(x) ==
  LET me == draftPicks[C7_Raw(x)]
  IN 1 + Cardinality({i \in 1..Len(draftPicks) :
           /\ draftPicks[i].season = x.season
           /\ "season_points" \in DOMAIN draftPicks[i]
           /\ \/ draftPicks[i].season_points > me.season_points
              \/ /\ draftPicks[i].season_points = me.season_points
                 /\ draftPicks[i].pick_number < me.pick_number})
C7_Diff(x) == C7_DraftRank(x) - C7_PerfRank(x)

Thm_C8_UngradedPicksExcluded ==
  /\ \A x \in C7_Shown :
       /\ x.row.grade # "" => (x.row.points # <<>> /\ C7_HasData(x))
       /\ ~C7_HasData(x) => (x.row.grade = "" /\ x.row.points = <<>>)
  /\ \A i \in 1..Len(C9_Panel.steals) : C9_Panel.steals[i].points # <<>>
  /\ \A i \in 1..Len(C9_Panel.busts) : C9_Panel.busts[i].points # <<>>
  /\ \A i \in 1..Len(ReportCardsPanel) :
       LET card == ReportCardsPanel[i]
           withData == {j \in 1..Len(card.picks) : card.picks[j].points # <<>>}
       IN /\ card.steals_count + card.busts_count <= Cardinality(withData)
          /\ withData = {} => card.overall_grade = "No grade"

\* The draft board on the screen with a pick that has no data, shown without
\* points and grade next to graded picks.
Wit_C8_UngradedPickShown ==
  /\ \E i \in 1..Len(DraftBoardTable) :
       DraftBoardTable[i].grade = "" /\ DraftBoardTable[i].points = <<>>
  /\ \E i \in 1..Len(DraftBoardTable) : DraftBoardTable[i].grade # ""
  /\ drStealsAndBusts # Null

\* The picks of the steals-and-busts season that have data.
C9_Graded ==
  {x \in {[season |-> drStealsAndBusts.season,
           row |-> [pick_number |-> k]] : k \in 1..NumPicks} : C7_HasData(x)}
C9_Listed(rows) ==
  {[season |-> drStealsAndBusts.season,
    row |-> [pick_number |-> rows[i].pick_number]] : i \in 1..Len(rows)}

Cex_C10_AiFailureClearsAvailability ==
  /\ (stAiLast = "failed" /\ stAiTasks = <<>>) => stAiAvailable = FALSE
  /\ askInitPc = "failed" => askAiAvailable = FALSE
  /\ (sbLast = "failed" /\ sbTasks = <<>>) => sbIsAvailable = FALSE


\* ---------------------------------------------------------------------- C11
\* The data a records-page tab depends on is missing: its request failed or
\* its response carries no data.
C11_Affected(tab) ==
  CASE tab = "records" -> ~(Truthy(records) /\ Has(records, "highest_score"))
    [] tab = "h2h" -> ~(Truthy(h2hMatrix) /\ Has(h2hMatrix, "matrix"))
    [] tab = "luck" -> ~(Truthy(luckAnalysis) /\ Has(luckAnalysis, "analysis"))
    [] tab = "power" ->
         ~(Truthy(powerRankings) /\ Has(powerRankings, "rankings"))

\* C11: once loading has ended, a selected tab whose data is missing shows
\* the explicit not-available message.  Violated: with the power-rankings
\* request failed the power tab renders nothing.
Cex_C11_AffectedTabShowsMessage ==
  (~recLoading /\ C11_Affected(recActiveTab)) =>
    RecordsTabView(recLoading, recActiveTab, records, h2hMatrix, luckAnalysis,
                   powerRankings) = "message"


\* ---------------------------------------------------------------------- C12
C12_View ==
  MemberPageView(mbLoading, mbMember, mbH2H, mbRivalries, mbNotableEvents,
                 mbAchievements, mbDraftTendencies, mbTxActivity)

\* C12: once loading has ended the profile is displayed whenever the member
\* request succeeded, and "Member Not Found" only when it failed.  Violated:
\* with the member request answered and the head-to-head, rivalries or
\* notable-events request failed the page shows "Member Not Found".
Cex_C12_ProfileShownWhenMemberLoads ==
  ~mbLoading =>
    /\ ~Fails(getMember(mbMemberId)) => C12_View.page = "profile"
    /\ C12_View.page = "not-found" => Fails(getMember(mbMemberId))


\* ---------------------------------------------------------------------- C13
\* C13: every AI narrative fetch terminates: in every execution the loading
\* indicators of the standings page and of the sidebar are eventually false
\* for good.  Violated: a request the AI service never answers is not bounded
\* by a timeout, and the indicator it set stays true.
Cex_C13_AiFetchTerminates ==
  <>[](~stAiLoading /\ ~sbIsLoading)


\* ---------------------------------------------------------------------- C14
\* The row of a team in the standings table, and the points a team scored in
\* the matchups of the selected season.
C14_RowOf(m) ==
  C3_Table[CHOOSE i \in 1..Len(C3_Table) : C3_Table[i].manager = NameOf(m)]
C14_PointsOf(m) ==
  SeqSum([k \in 1..Len(C4_Games) |->
            IF C4_Games[k].team1 = m THEN C4_Games[k].score1
            ELSE IF C4_Games[k].team2 = m THEN C4_Games[k].score2 ELSE 0])
\* In a season of 12 teams and 14 weeks, team m won 10 games, lost 4 and
\* scored the most points of the league.
C14_TenAndFourWithMostPoints(m) ==
  /\ Len(C3_Table) = 12
  /\ Len(C4_Games) = C4_MatchupsOf(12, 14)
  /\ C4_WinsOf(m) = 10 /\ C4_LossesOf(m) = 4
  /\ LET mine == C14_PointsOf(m)
     IN \A o \in (1..12) \ {m} : C14_PointsOf(o) < mine

\* C14 as stated: a team with record 10-4 and the highest points-for of a
\* 12-team, 14-week season is shown at rank 1.  Violated: a team with more
\* than ten wins and fewer points ranks above it.
Cex_C14_TenAndFourRanksFirst ==
  \A m \in 1..12 :
    C14_TenAndFourWithMostPoints(m) =>
      /\ C14_RowOf(m).record = <<10, 4>>
      /\ C14_RowOf(m).rank = 1

\* C14 amended: such a team is shown with record 10-4, and at rank 1 in the
\* first row exactly when no other team has more than ten wins; among the
\* teams with ten wins its points-for puts it first.
Thm_C14_TenAndFourRanksFirstUnlessMoreWins ==
  \A m \in 1..12 :
    C14_TenAndFourWithMostPoints(m) =>
      /\ C14_RowOf(m).record = <<10, 4>>
      /\ (C14_RowOf(m).rank = 1 /\ C3_Table[1].manager = NameOf(m))
           <=> (\A o \in (1..12) \ {m} : C4_WinsOf(o) <= 10)

\* A loaded full season in which the 10-4 team with the most points is first
\* ahead of another team with ten wins.
Wit_C14_TieOnWinsBrokenByPoints ==
  \E m \in 1..12 :
    /\ C14_TenAndFourWithMostPoints(m)
    /\ C14_RowOf(m).rank = 1
    /\ C3_Wins(C3_Table[2]) = 10


\* ---------------------------------------------------------------------- C15
\* The highlight cards the standings page shows, and the sides and margins of
\* the selected season's matchups in scan order.
C15_Cards == SeasonHighlights(stLoading, stSeasonRecords)
C15_Sides ==
  [k \in 1..(2 * Len(C4_Games)) |->
     LET g == C4_Games[(k + 1) \div 2]
     IN IF k % 2 = 1
          THEN [score |-> g.score1, manager |-> NameOf(g.team1), week |-> g.week]
          ELSE [score |-> g.score2, manager |-> NameOf(g.team2), week |-> g.week]]
C15_Margin(g) ==
  IF g.score1 >= g.score2 THEN g.score1 - g.score2 ELSE g.score2 - g.score1
\* The card shows the side at place k, or the matchup at place k.
C15_IsSide(card, k) ==
  /\ card.value = C15_Sides[k].score
  /\ card.manager = C15_Sides[k].manager
  /\ card.week = C15_Sides[k].week
C15_IsGame(card, k) ==
  LET g == C4_Games[k]
  IN /\ card.value = C15_Margin(g)
     /\ card.week = g.week
     /\ {card.winner, card.loser} = {NameOf(g.team1), NameOf(g.team2)}
     /\ card.winner_score - card.loser_score = C15_Margin(g)
     /\ {card.winner_score, card.loser_score} = {g.score1, g.score2}

\* C15: when the season records of the selected season are loaded, each of
\* the four highlight cards is there and shows the extreme over all matchups
\* of the season, taken from the first side or matchup in scan order that
\* attains it; the records of a season without matchups give no card.
Thm_C15_HighlightsAreFirstExtremes ==
  /\ (/\ Truthy(stSeasonRecords)
      /\ stSeasonRecords.season = stSelectedYear
      /\ ~stLoading /\ Len(C4_Games) > 0) =>
       /\ DOMAIN C15_Cards = {"highest_score", "lowest_score",
                              "biggest_blowout", "closest_game"}
       /\ \E k \in 1..Len(C15_Sides) :
            /\ C15_IsSide(C15_Cards.highest_score, k)
            /\ \A j \in 1..Len(C15_Sides) :
                 C15_Sides[j].score <= C15_Sides[k].score
            /\ \A j \in 1..(k - 1) : C15_Sides[j].score < C15_Sides[k].score
       /\ \E k \in 1..Len(C15_Sides) :
            /\ C15_IsSide(C15_Cards.lowest_score, k)
            /\ \A j \in 1..Len(C15_Sides) :
                 C15_Sides[j].score >= C15_Sides[k].score
            /\ \A j \in 1..(k - 1) : C15_Sides[j].score > C15_Sides[k].score
       /\ \E k \in 1..Len(C4_Games) :
            /\ C15_IsGame(C15_Cards.biggest_blowout, k)
            /\ \A j \in 1..Len(C4_Games) :
                 C15_Margin(C4_Games[j]) <= C15_Margin(C4_Games[k])
            /\ \A j \in 1..(k - 1) :
                 C15_Margin(C4_Games[j]) < C15_Margin(C4_Games[k])
       /\ \E k \in 1..Len(C4_Games) :
            /\ C15_IsGame(C15_Cards.closest_game, k)
            /\ \A j \in 1..Len(C4_Games) :
                 C15_Margin(C4_Games[j]) >= C15_Margin(C4_Games[k])
            /\ \A j \in 1..(k - 1) :
                 C15_Margin(C4_Games[j]) > C15_Margin(C4_Games[k])
  /\ \A y \in {stSelectedYear - 1, stSelectedYear + 1} :
       Len(SeasonMatchups(y)) = 0 =>
         SeasonHighlights(FALSE, FetchOrNull(getSeasonRecords(y))) = <<>>

\* Loaded highlights of a season where the highest score is posted more than
\* once, first in a later matchup than the lowest score, and where two
\* matchups share the largest margin.
Wit_C15_TiedExtremes ==
  /\ DOMAIN C15_Cards = {"highest_score", "lowest_score", "biggest_blowout",
                         "closest_game"}
  /\ Cardinality({k \in 1..Len(C15_Sides) :
                    C15_Sides[k].score = C15_Cards.highest_score.value}) > 1
  /\ C15_Cards.highest_score.week > C15_Cards.lowest_score.week
  /\ Cardinality({k \in 1..Len(C4_Games) :
                    C15_Margin(C4_Games[k]) = C15_Cards.biggest_blowout.value}) > 1
  /\ C15_Cards.biggest_blowout.value > C15_Cards.closest_game.value


\* ---------------------------------------------------------------------- C16
\* No request of the standings page is outstanding.
C16_AllComplete ==
  /\ stSeasonsReqs = <<>> /\ stDataTasks = <<>> /\ stAiTasks = <<>>

\* C16: once a season has been selected by a click and every outstanding
\* request has completed, the standings and the season records held by the
\* page are what the backend serves for the selected year.
Cex_C16_DataOfSelectedYear ==
  (C16_AllComplete /\ stClicks > 0) =>
    /\ stStandings = Serve(getStandings(stSelectedYear))
    /\ stSeasonRecords = FetchOrNull(getSeasonRecords(stSelectedYear))


\* ---------------------------------------------------------------------- C17
\* No timer and no search of the player search page is outstanding.
C17_AllComplete == plTimer = Null /\ plTasks = <<>>

\* C17: once no timer and no search request is outstanding, the results are
\* those the backend returns for the current query, which is the query of
\* the last timer that fired; when the trimmed query has fewer than 2
\* characters the results are empty and searched is false.
Cex_C17_ResultsOfLatestQuery ==
  C17_AllComplete =>
    IF Len(Trim(plQuery)) < 2
      THEN plResults = <<>> /\ ~plSearched
      ELSE /\ plSearched
           /\ plResults = IF Fails(searchPlayers(Trim(plQuery))) THEN <<>>
                          ELSE Serve(searchPlayers(Trim(plQuery))).players


\* ---------------------------------------------------------------------- C18
\* No request of the drafts page is outstanding.
C18_AllComplete ==
  ~drSeasonsPending /\ drTabTasks = <<>> /\ drAiTasks = <<>>
C18_TabData ==
  {drDraftBoard, drReportCards, drStealsAndBusts, drTransactions}

\* C18: once every outstanding request of the drafts page has completed,
\* every tab dataset that is not null is the dataset of the selected season.
Cex_C18_TabDataOfSelectedSeason ==
  C18_AllComplete =>
    \A d \in C18_TabData : Truthy(d) => d.season = drSelectedYear

\* A change of the selected season leaves every tab dataset and the AI
\* narrative null.
C18_ChangeResets ==
  [][drSelectedYear' # drSelectedYear =>
       /\ drDraftBoard' = Null /\ drReportCards' = Null
       /\ drStealsAndBusts' = Null /\ drTransactions' = Null
       /\ drAiNarrative' = Null]_vars


\* ---------------------------------------------------------------------- C19
\* C19: as long as fetchSummary has only been called unforced, at most one
\* AI summary request has been issued for each context.
Cex_C19_OneSummaryRequestPerContext ==
  ~sbForced => \A key \in ContextKeys : sbSummaryReqs[key] <= 1

\* ---------------------------------------------------------------------- C20
\* A step in which the effect calls fetchSummary() for another context, and
\* one in which a button calls fetchSummary(true).
C20_UnforcedCall == sbClicks' # sbClicks /\ sbContextKey' # sbContextKey
C20_ForcedCall == sbClicks' # sbClicks /\ sbContextKey' = sbContextKey
\* A step in which a fetch ends in a failure or finds the AI unavailable.
C20_FetchFails ==
  Len(sbTasks') < Len(sbTasks) /\ sbLast' \in {"failed", "unavailable"}

Thm_C21_ChatAlternates ==
  /\ \A j \in 1..Len(askMessages) :
       IF j % 2 = 1
         THEN /\ askMessages[j].role = "user"
              /\ Len(askMessages[j].content) > 0
              /\ Trim(askMessages[j].content) = askMessages[j].content
         ELSE /\ askMessages[j].role = "commish"
              /\ askMessages[j].content \in
                   {<<"answer", askMessages[j - 1].content>>, Apology}
  /\ Len(askTasks) <= 1
  /\ askIsLoading <=> Len(askTasks) = 1
  /\ askIsLoading <=> Len(askMessages) % 2 = 1
  /\ askIsLoading =>
       askTasks[1].question = askMessages[Len(askMessages)].content

\* Two questions have been answered, one with the apology, after a blank
\* submit was ignored.
Wit_C21_TwoExchanges ==
  /\ Len(askMessages) = 4 /\ ~askIsLoading
  /\ askSubmits = 3
  /\ \E j \in {2, 4} : askMessages[j].content = Apology
  /\ \E j \in {2, 4} : askMessages[j].content # Apology


\* ---------------------------------------------------------------------- C22
\* C22: a step that sends a search request sends it for the trimmed current
\* query, which has at least 2 characters and has not changed for the
\* debounce delay; a change of the query sends nothing and replaces the
\* pending timer by one that is due a full delay later; a timer that fires
\* for a query whose trimmed length is below 2 sends nothing, clears the
\* results and sets searched to false.
Thm_C22_SearchIsDebounced ==
  [][/\ Len(plTasks') > Len(plTasks) =>
          /\ plTasks' = Append(plTasks, searchPlayers(Trim(plQuery)))
          /\ Len(Trim(plQuery)) >= 2
          /\ plNow - plChangedAt >= DebounceMs
          /\ plTimer # Null /\ plTimer' = Null
     /\ plQuery' # plQuery =>
          /\ plTasks' = plTasks
          /\ plTimer' = [q |-> plQuery', due |-> plNow + DebounceMs]
     /\ (plTimer # Null /\ plTimer' = Null /\ Len(Trim(plQuery)) < 2) =>
          /\ plTasks' = plTasks
          /\ plResults' = <<>> /\ plSearched' = FALSE]_vars

\* A request is in flight for the third query typed, after a change of the
\* query cleared the pending timer of an earlier one.
Wit_C22_SentAfterCancelledTimer ==
  /\ plCancelled /\ plTyped = 3
  /\ plTasks = <<searchPlayers(Trim(plQuery))>>
  /\ plTimer = Null


\* ---------------------------------------------------------------------- C23
\* The year is the year of a listed season.
C23_Listed(year) == \E k \in 1..Len(stSeasons) : stSeasons[k].year = year

\* C23: once the seasons list has loaded non-empty, and before any season
\* button is clicked, the selected year is the year parameter of the URL
\* when that year is listed and the year of the first listed season
\* otherwise; the selected year is a year of the list from then on, also
\* after clicks of the season buttons.
Thm_C23_SelectedYearFromUrlOrFirst ==
  Len(stSeasons) > 0 =>
    /\ C23_Listed(stSelectedYear)
    /\ stClicks = 0 =>
         stSelectedYear = IF C23_Listed(stUrlYear) THEN stUrlYear
                          ELSE stSeasons[1].year

\* The page was opened with the year of a listed season that is not the
\* first one, and that year is selected.
Wit_C23_UrlYearSelected ==
  /\ Len(stSeasons) > 1 /\ stClicks = 0
  /\ stUrlYear # stSeasons[1].year
  /\ stSelectedYear = stUrlYear


\* ---------------------------------------------------------------------- C24
\* The data the page holds for a tab.
C24_DataOf(tab) ==
  CASE tab = "board" -> drDraftBoard
    [] tab = "report-cards" -> drReportCards
    [] tab = "steals-busts" -> drStealsAndBusts
    [] tab = "transactions" -> drTransactions

C24_Data == <<drDraftBoard, drReportCards, drStealsAndBusts, drTransactions>>

\* This step appends one transactions request for the selected season and
\* the filter of the new render.
C24_NewTransactionsRequest ==
  /\ Len(drTabTasks') = Len(drTabTasks) + 1
  /\ Take(drTabTasks', Len(drTabTasks)) = drTabTasks
  /\ drTabTasks'[Len(drTabTasks')].req =
       getTransactions(drSelectedYear, drTxTypeFilter')

\* C24: with the selected season unchanged, a switch to the board,
\* report-cards or steals-busts tab whose data for the selected season is
\* loaded sends no request and leaves the loaded data as it is, while a
\* switch to the transactions tab and a change of the transaction-type
\* filter each send a new transactions request.
Thm_C24_CachedTabsSendNothing ==
  [][drSelectedYear' = drSelectedYear /\ drSelectedYear # NoYear =>
       /\ (/\ drActiveTab' # drActiveTab
           /\ drActiveTab' # "transactions"
           /\ C24_DataOf(drActiveTab') # Null
           /\ C24_DataOf(drActiveTab').season = drSelectedYear)
          => drTabTasks' = drTabTasks /\ C24_Data' = C24_Data
       /\ (drActiveTab' # drActiveTab /\ drActiveTab' = "transactions")
          => C24_NewTransactionsRequest
       /\ drTxTypeFilter' # drTxTypeFilter => C24_NewTransactionsRequest]_vars

\* A tab switch found its data loaded and sent nothing, the filter was
\* changed, and every request has been answered.
Wit_C24_CachedSwitchAndFilterChange ==
  /\ drSwitchedCached
  /\ drFilterChanges > 0
  /\ drTabTasks = <<>>

=============================================================================
